---- MODULE Spec2Model ----
(***************************************************************************)
(* Model of the DC_Handler operator console and its API routes:            *)
(*   src/app/api/publish-post/route.ts   the publish pipeline              *)
(*   src/app/api/wp-authors/route.ts     list authors                      *)
(*   src/unnamed/part_000                save SEO data                     *)
(*   src/unnamed/part_001                optimize content                  *)
(*   src/unnamed/part_002                list posts                        *)
(*   src/app/page.tsx                    the operator console              *)
(*                                                                         *)
(* JavaScript values are tagged records; a string is a sequence of         *)
(* one-character strings, so that trim, slugify and the like are computed  *)
(* character by character.                                                 *)
(***************************************************************************)
EXTENDS Integers, Sequences, FiniteSets, TLC

\* ------------------------------------------------------------ bounds
\* longest tag list of a publish request
MaxTags == 2
\* most publish requests served one after the other in SpecSeq
MaxInvocations == 2
\* most batches the operator starts in SpecConsole
MaxBatches == 1
\* longest list of posts the remote answers a listing with
MaxListed == 2
\* longest list of posts the remote answers with when the wp-posts route is
\* taken alone
MaxPosts == 3

\* ------------------------------------------------------------ JS values
Undefined == [t |-> "undefined"]
Null == [t |-> "null"]
Num(n) == [t |-> "number", v |-> n]
Str(s) == [t |-> "string", v |-> s]
Bool(b) == [t |-> "boolean", v |-> b]
Arr(s) == [t |-> "array", v |-> s]
Obj(f) == [t |-> "object", v |-> f]

\* JavaScript truthiness: undefined, null, 0, "" and false are falsy
Truthy(x) ==
  CASE x.t = "undefined" -> FALSE
    [] x.t = "null" -> FALSE
    [] x.t = "number" -> x.v # 0
    [] x.t = "string" -> Len(x.v) > 0
    [] x.t = "boolean" -> x.v
    [] OTHER -> TRUE

\* a || b
OrElse(a, b) == IF Truthy(a) THEN a ELSE b

\* obj[k] = v on an object literal
Put(obj, k, v) == [y \in DOMAIN obj \cup {k} |-> IF y = k THEN v ELSE obj[y]]

\* JSON.stringify of an object: a property whose value is undefined is left out
JSONStringify(obj) ==
  LET keep == {k \in DOMAIN obj : obj[k].t # "undefined"}
  IN [k \in keep |-> obj[k]]

\* ------------------------------------------------------------ strings
UpperLetters == <<"A","B","C","D","E","F","G","H","I","J","K","L","M",
                  "N","O","P","Q","R","S","T","U","V","W","X","Y","Z">>
LowerLetters == <<"a","b","c","d","e","f","g","h","i","j","k","l","m",
                  "n","o","p","q","r","s","t","u","v","w","x","y","z">>
Digits == {"0","1","2","3","4","5","6","7","8","9"}
WhiteSpace == {" ", "\t", "\n"}

Range(s) == {s[i] : i \in DOMAIN s}

\* String.prototype.toLowerCase, one character
LowerChar(c) ==
  IF c \in Range(UpperLetters)
  THEN LowerLetters[CHOOSE i \in DOMAIN UpperLetters : UpperLetters[i] = c]
  ELSE c

\* the capital letter I with a dot above (U+0130) lower-cases to two
\* characters, the letter i followed by the combining dot above (U+0307); it
\* is the one character whose lower case is longer than itself
DottedCapitalI == "U+0130"
CombiningDotAbove == "U+0307"

\* String.prototype.toLowerCase
RECURSIVE toLowerCase(_)
toLowerCase(s) ==
  IF s = <<>> THEN <<>>
  ELSE (IF Head(s) = DottedCapitalI THEN <<"i", CombiningDotAbove>>
        ELSE <<LowerChar(Head(s))>>) \o toLowerCase(Tail(s))

\* String.prototype.trim
RECURSIVE TrimLeft(_)
TrimLeft(s) ==
  IF s # <<>> /\ Head(s) \in WhiteSpace THEN TrimLeft(Tail(s)) ELSE s

RECURSIVE TrimRight(_)
TrimRight(s) ==
  IF s # <<>> /\ s[Len(s)] \in WhiteSpace
  THEN TrimRight(SubSeq(s, 1, Len(s) - 1))
  ELSE s

trim(s) == TrimRight(TrimLeft(s))

\* a slug in which a run of characters outside [a-z0-9-] becomes one '-'
SlugifyMutCollapse(name) ==
  LET low == toLowerCase(name)
      kept == SelectSeq([i \in DOMAIN low |-> i],
                        LAMBDA i : \/ low[i] \in Range(LowerLetters) \cup Digits \cup {"-"}
                                   \/ i = 1
                                   \/ low[i - 1] \in Range(LowerLetters) \cup Digits \cup {"-"})
  IN [k \in DOMAIN kept |->
        IF low[kept[k]] \in Range(LowerLetters) \cup Digits \cup {"-"}
        THEN low[kept[k]] ELSE "-"]

\* name.toLowerCase().replace(/[^a-z0-9-]/g, '-')
Slugify(name) ==
  LET low == toLowerCase(name)
  IN [i \in DOMAIN low |->
        IF low[i] \in Range(LowerLetters) \cup Digits \cup {"-"}
        THEN low[i] ELSE "-"]

\* encodeURIComponent: letters, digits and - _ . ! ~ * ' ( ) stay, the rest
\* becomes %XX (the characters of the model's alphabet that are escaped)
EscapeOf(c) ==
  CASE c = " " -> <<"%","2","0">>
    [] c = "&" -> <<"%","2","6">>
    [] c = "/" -> <<"%","2","F">>
    [] c = "?" -> <<"%","3","F">>
    [] c = "=" -> <<"%","3","D">>
    [] OTHER -> <<c>>

RECURSIVE encodeURIComponent(_)
encodeURIComponent(s) ==
  IF s = <<>> THEN <<>> ELSE EscapeOf(Head(s)) \o encodeURIComponent(Tail(s))

\* the query-string decoding the remote applies to a parameter
RECURSIVE DecodeParam(_)
DecodeParam(s) ==
  IF s = <<>> THEN <<>>
  ELSE IF Head(s) = "%" /\ Len(s) >= 3
       THEN LET code == SubSeq(s, 2, 3)
                c == CASE code = <<"2","0">> -> " "
                       [] code = <<"2","6">> -> "&"
                       [] code = <<"2","F">> -> "/"
                       [] code = <<"3","F">> -> "?"
                       [] code = <<"3","D">> -> "="
                       [] OTHER -> "%"
            IN <<c>> \o DecodeParam(SubSeq(s, 4, Len(s)))
       ELSE <<Head(s)>> \o DecodeParam(Tail(s))

\* ------------------------------------------------------------ state
VARIABLES
  \* configuration (process.env)
  WP_USERNAME, WP_PASSWORD, WORDPRESS_URL, OPENAI_API_KEY, PIXABAY_API_KEY,
  \* the remote content system
  remoteUsers, remoteCategories, remoteTags, remotePosts, remoteMedia,
  \* the route handler in progress
  handler, pc, req, response, calls, served,
  \* publish-post POST: its locals
  featuredMediaId, uploadedImageUrl, authorId, categoryId, tagIds,
  \* outcome of the PUT of updateWordPressPost ("none" before it)
  putOutcome,
  \* the optional arguments of a direct call of updateWordPressPost
  updArgs,
  \* what the remote answered to each call of the publish request in progress,
  \* kept when the answers are observed; and the first invocation as a client
  \* saw it end, kept when it sends the same request again
  answered, firstRun,
  \* the console (page.tsx): its React state
  loading, error, posts, selectedPosts, optimizing, results, expandedPosts,
  publishStatus, selectedAuthorId,
  \* the console: the locals of the optimizeWithAI call in progress (the
  \* selection it closed over, the loop index i, and newResults)
  batch, index, newResults,
  \* the number of optimize clicks so far
  batches,
  \* the requests the console has sent to /api/optimize-content, each with the
  \* reply it got, and the requests it has sent to /api/publish-post
  optimizeLog, publishLog

configVars == <<WP_USERNAME, WP_PASSWORD, WORDPRESS_URL, OPENAI_API_KEY, PIXABAY_API_KEY>>
remoteVars == <<remoteUsers, remoteCategories, remoteTags, remotePosts, remoteMedia>>
publishVars == <<featuredMediaId, uploadedImageUrl, authorId, categoryId, tagIds, putOutcome>>
serverVars == <<handler, pc, req, response, calls, served>>
consoleVars == <<loading, error, posts, selectedPosts, optimizing, results, expandedPosts, publishStatus, selectedAuthorId, batch, index, newResults, batches, optimizeLog, publishLog>>
observerVars == <<answered, firstRun>>
vars == <<configVars, remoteVars, serverVars, publishVars, updArgs, observerVars, consoleVars>>

\* what a remote call can come back with: a success status, a non-success
\* status, or no response at all (fetch rejects)
\* both service keys are configured
KeysConfigured ==
  /\ OPENAI_API_KEY = Str(<<"o">>)
  /\ PIXABAY_API_KEY = Str(<<"p">>)

\* the console before it is mounted: the initial values of its useState hooks
ConsoleUnmounted ==
  /\ loading = TRUE
  /\ error = Null
  /\ posts = <<>>
  /\ selectedPosts = <<>>
  /\ optimizing = FALSE
  /\ results = <<>>
  /\ expandedPosts = <<>>
  /\ publishStatus = <<>>
  /\ selectedAuthorId = Null
  /\ batch = <<>>
  /\ index = 0
  /\ newResults = <<>>
  /\ batches = 0
  /\ optimizeLog = <<>>
  /\ publishLog = <<>>

Outcomes == {"ok", "status", "throw"}

\* one remote call: method, endpoint, the slug or post id it addresses, its body
Call(method, url, slug, id, body) ==
  [method |-> method, url |-> url, slug |-> slug, id |-> id, body |-> body]

NoBody == <<>>
NoResponse == [status |-> 0, success |-> FALSE, error |-> "", data |-> <<>>]

\* ------------------------------------------------------------ the remote
\* GET <collection>?slug=<slug>&_fields=id: the entries with exactly that slug
RemoteBySlug(table, slug) ==
  IF slug \in DOMAIN table THEN <<[id |-> Num(table[slug])]>> ELSE <<>>

\* PUT /wp/v2/posts/<id>: the fields the body carries replace the post's, the
\* meta keys it carries replace those keys, everything else is kept
ApplyUpdate(post, body) ==
  [k \in DOMAIN post |->
     IF k \notin DOMAIN body THEN post[k]
     ELSE IF k = "meta"
          THEN Obj([m \in DOMAIN post[k].v \cup DOMAIN body[k].v |->
                      IF m \in DOMAIN body[k].v THEN body[k].v[m] ELSE post[k].v[m]])
          ELSE body[k]]

\* a post of the remote system as the REST API shows it
RemotePost ==
  [title |-> Str(<<"o">>), content |-> Str(<<"o">>), status |-> Str(<<"d">>),
   featured_media |-> Num(0), author |-> Num(1),
   categories |-> Arr(<<Num(1)>>), tags |-> Arr(<<Num(29)>>),
   meta |-> Obj([rank_math_title |-> Str(<<"o">>),
                 rank_math_description |-> Str(<<"o">>),
                 rank_math_focus_keyword |-> Str(<<"o">>),
                 rank_math_score |-> Str(<<"5">>)])]

\* the remote system at the start: its users, categories and tags by slug, and
\* its posts by id
InitialUsers == (<<"j","m">> :> 7)
InitialCategories == (<<"a","-">> :> 11)
InitialTags == (<<"n">> :> 21)
InitialPosts == [p \in {1, 2} |-> RemotePost]

\* the posts collection after a write: PUT or POST /wp/v2/posts/<id> updates the
\* post with that id, POST /wp/v2/posts creates a post under a new id
RemoteWrite(stored, call, blank) ==
  IF call.method \in {"PUT", "POST"} /\ call.id \in DOMAIN stored
  THEN [stored EXCEPT ![call.id] = ApplyUpdate(@, call.body)]
  ELSE IF call.method = "POST" /\ call.id = 0
       THEN LET new == 1 + Cardinality(DOMAIN stored)
            IN [p \in DOMAIN stored \cup {new} |->
                  IF p = new THEN ApplyUpdate(blank, call.body) ELSE stored[p]]
       ELSE stored

\* the id the media library gives its next upload
NextMediaId == 100 + Cardinality(remoteMedia)

\* ------------------------------------------------------------ publish-post
\* a getUserIdByName that asks a second time when the first answer is no success
getUserIdByNameMutRetry(username, outcome) ==
  LET call == Call("GET", "/wp/v2/users", encodeURIComponent(username), 0, NoBody)
      users == RemoteBySlug(remoteUsers, DecodeParam(call.slug))
  IN [calls |-> IF outcome = "ok" THEN <<call>> ELSE <<call, call>>,
      result |-> IF outcome # "ok" THEN Null
                 ELSE IF Len(users) > 0 THEN users[1].id ELSE Null]

\* a getUserIdByName that falls back to the first user when nothing matches
getUserIdByNameMutDefault(username, outcome) ==
  LET call == Call("GET", "/wp/v2/users", encodeURIComponent(username), 0, NoBody)
      users == RemoteBySlug(remoteUsers, DecodeParam(call.slug))
  IN [calls |-> <<call>>,
      result |-> IF outcome = "ok" /\ Len(users) > 0 THEN users[1].id ELSE Num(1)]

\* getUserIdByName: one GET on users by slug; null unless it answers with a match
getUserIdByName(username, outcome) ==
  LET call == Call("GET", "/wp/v2/users", encodeURIComponent(username), 0, NoBody)
      users == RemoteBySlug(remoteUsers, DecodeParam(call.slug))
  IN [calls |-> <<call>>,
      result |-> IF outcome # "ok" THEN Null
                 ELSE IF Len(users) > 0 THEN users[1].id ELSE Null]

\* getCategoryIdByName: one GET on categories by the slugified name
getCategoryIdByName(categoryName, outcome) ==
  LET categorySlug == Slugify(categoryName)
      call == Call("GET", "/wp/v2/categories", categorySlug, 0, NoBody)
      categories == RemoteBySlug(remoteCategories, categorySlug)
  IN [calls |-> <<call>>,
      result |-> IF outcome # "ok" THEN Null
                 ELSE IF Len(categories) > 0 THEN categories[1].id ELSE Null]

\* getTagIdsByNames: the loop from tag i on, with tagIds collected so far; a
\* rejected fetch leaves the loop through the catch, which returns []
RECURSIVE TagLoop(_, _, _, _, _)
TagLoop(tagNames, outcomes, i, ids, issued) ==
  IF i > Len(tagNames) THEN [calls |-> issued, result |-> ids]
  ELSE LET tagSlug == Slugify(tagNames[i])
           call == Call("GET", "/wp/v2/tags", tagSlug, 0, NoBody)
           tags == RemoteBySlug(remoteTags, tagSlug)
       IN IF outcomes[i] = "throw"
          THEN [calls |-> Append(issued, call), result |-> <<>>]
          ELSE TagLoop(tagNames, outcomes, i + 1,
                       IF outcomes[i] = "ok" /\ Len(tags) > 0
                       THEN Append(ids, tags[1].id) ELSE ids,
                       Append(issued, call))

getTagIdsByNames(tagNames, outcomes) == TagLoop(tagNames, outcomes, 1, <<>>, <<>>)

\* an uploadImageToWordPress that does not look at the status of the fetch
uploadImageToWordPressMutNoFetchTest(imageUrl, fetched, uploaded) ==
  LET fetchCall == Call("GET", "image", imageUrl, 0, NoBody)
      uploadCall == Call("POST", "/wp/v2/media", <<>>, 0, NoBody)
  IN IF fetched = "throw"
     THEN [calls |-> <<fetchCall>>, result |-> Null, created |-> {}]
     ELSE IF uploaded # "ok"
          THEN [calls |-> <<fetchCall, uploadCall>>, result |-> Null, created |-> {}]
          ELSE [calls |-> <<fetchCall, uploadCall>>,
                result |-> Obj([id |-> Num(NextMediaId), url |-> Str(<<"w">>)]),
                created |-> {NextMediaId}]

\* uploadImageToWordPress: fetch the image, then POST it to the media library;
\* null when either call does not come back with a success status
uploadImageToWordPress(imageUrl, fetched, uploaded) ==
  LET fetchCall == Call("GET", "image", imageUrl, 0, NoBody)
      uploadCall == Call("POST", "/wp/v2/media", <<>>, 0, NoBody)
  IN IF fetched # "ok"
     THEN [calls |-> <<fetchCall>>, result |-> Null, created |-> {}]
     ELSE IF uploaded # "ok"
          THEN [calls |-> <<fetchCall, uploadCall>>, result |-> Null, created |-> {}]
          ELSE [calls |-> <<fetchCall, uploadCall>>,
                result |-> Obj([id |-> Num(NextMediaId), url |-> Str(<<"w">>)]),
                created |-> {NextMediaId}]

\* Number.prototype.toString, base 10, of a natural number
DigitChars == <<"0","1","2","3","4","5","6","7","8","9">>

RECURSIVE NumToString(_)
NumToString(n) ==
  IF n < 10 THEN <<DigitChars[n + 1]>>
  ELSE NumToString(n \div 10) \o <<DigitChars[(n % 10) + 1]>>

\* keywords?.length > 0 and keywords?.[0]
HasKeywords(keywords) == keywords.t = "array" /\ Len(keywords.v) > 0
FirstKeyword(keywords) == IF HasKeywords(keywords) THEN keywords.v[1] ELSE Undefined

\* seoScore?.toString()
ScoreString(seoScore) ==
  IF seoScore.t = "number" THEN Str(NumToString(seoScore.v)) ELSE Undefined

\* an update payload that always carries a tags field, empty when no tag ids
\* are given
updateDataMutAlwaysTags(title, content, featuredMediaId_, authorId_, categoryId_, tagIds_, status, seoTitle, seoDescription, keywords, seoScore) ==
  LET d0 == [title |-> title, content |-> content, status |-> status,
             featured_media |-> featuredMediaId_]
      d1 == IF Truthy(authorId_) THEN Put(d0, "author", authorId_) ELSE d0
      d2 == IF Truthy(categoryId_) THEN Put(d1, "categories", Arr(<<categoryId_>>)) ELSE d1
      d3 == Put(d2, "tags", OrElse(tagIds_, Arr(<<>>)))
      meta == [rank_math_title |-> OrElse(seoTitle, Str(<<>>)),
               rank_math_description |-> OrElse(seoDescription, Str(<<>>)),
               rank_math_focus_keyword |-> OrElse(FirstKeyword(keywords), Str(<<>>)),
               rank_math_score |-> OrElse(ScoreString(seoScore), Str(<<>>))]
  IN IF Truthy(seoTitle) \/ Truthy(seoDescription) \/ HasKeywords(keywords)
        \/ seoScore.t # "undefined"
     THEN Put(d3, "meta", Obj(meta))
     ELSE d3

\* updateWordPressPost: the object it builds before sending it
updateData(title, content, featuredMediaId_, authorId_, categoryId_, tagIds_, status, seoTitle, seoDescription, keywords, seoScore) ==
  LET d0 == [title |-> title, content |-> content, status |-> status,
             featured_media |-> featuredMediaId_]
      d1 == IF Truthy(authorId_) THEN Put(d0, "author", authorId_) ELSE d0
      d2 == IF Truthy(categoryId_) THEN Put(d1, "categories", Arr(<<categoryId_>>)) ELSE d1
      d3 == IF Truthy(tagIds_) /\ Len(tagIds_.v) > 0 THEN Put(d2, "tags", tagIds_) ELSE d2
      meta == [rank_math_title |-> OrElse(seoTitle, Str(<<>>)),
               rank_math_description |-> OrElse(seoDescription, Str(<<>>)),
               rank_math_focus_keyword |-> OrElse(FirstKeyword(keywords), Str(<<>>)),
               rank_math_score |-> OrElse(ScoreString(seoScore), Str(<<>>))]
  IN IF Truthy(seoTitle) \/ Truthy(seoDescription) \/ HasKeywords(keywords)
        \/ seoScore.t # "undefined"
     THEN Put(d3, "meta", Obj(meta))
     ELSE d3

\* an updateWordPressPost that does not look at the status of the answer
updateWordPressPostMutIgnoreStatus(postId, title, content, featuredMediaId_, authorId_, categoryId_, tagIds_, status, seoTitle, seoDescription, keywords, seoScore, outcome) ==
  LET body == JSONStringify(updateData(title, content, featuredMediaId_, authorId_,
                                       categoryId_, tagIds_, status, seoTitle,
                                       seoDescription, keywords, seoScore))
  IN [calls |-> <<Call("PUT", "/wp/v2/posts", <<>>, postId.v, body)>>,
      result |-> (outcome # "throw")]

\* an updateWordPressPost that creates a post instead of updating the one given
updateWordPressPostMutCreate(postId, title, content, featuredMediaId_, authorId_, categoryId_, tagIds_, status, seoTitle, seoDescription, keywords, seoScore, outcome) ==
  LET body == JSONStringify(updateData(title, content, featuredMediaId_, authorId_,
                                       categoryId_, tagIds_, status, seoTitle,
                                       seoDescription, keywords, seoScore))
  IN [calls |-> <<Call("POST", "/wp/v2/posts", <<>>, 0, body)>>,
      result |-> (outcome = "ok")]

\* updateWordPressPost: one PUT on the post; true only when it comes back with
\* a success status
updateWordPressPost(postId, title, content, featuredMediaId_, authorId_, categoryId_, tagIds_, status, seoTitle, seoDescription, keywords, seoScore, outcome) ==
  LET body == JSONStringify(updateData(title, content, featuredMediaId_, authorId_,
                                       categoryId_, tagIds_, status, seoTitle,
                                       seoDescription, keywords, seoScore))
  IN [calls |-> <<Call("PUT", "/wp/v2/posts", <<>>, postId.v, body)>>,
      result |-> (outcome = "ok")]

\* NextResponse.json(body, {status})
JsonResponse(status, success, message, data) ==
  [status |-> status, success |-> success, error |-> message, data |-> data]

\* a guard that lets a request through unless both credentials are missing
MissingCredentialsMutBoth == ~Truthy(WP_USERNAME) /\ ~Truthy(WP_PASSWORD)

\* no observer: the answers are not kept and no invocation is remembered
NoRun == [served |-> 0]
Unobserved == answered = [observed |-> FALSE, log |-> <<>>] /\ firstRun = NoRun

\* the answers are kept, one per call issued, in the order of the calls
Observed == answered = [observed |-> TRUE, log |-> <<>>] /\ firstRun = NoRun

\* the observer's step with a helper: the helper issued the calls 'issued' and
\* the remote answered them with the first of 'outcomes'
Answers(issued, outcomes) ==
  answered' = IF answered.observed
              THEN [answered EXCEPT !.log = @ \o SubSeq(outcomes, 1, Len(issued))]
              ELSE answered

\* the credential guard of the content-system routes
MissingCredentials == ~Truthy(WP_USERNAME) \/ ~Truthy(WP_PASSWORD)

\* POST, up to the credential check: the body is destructured, the locals are
\* declared, and without credentials the 400 is returned at once
PublishBegin(r) ==
  /\ pc \in {"idle", "done"}
  /\ handler' = "publish"
  /\ req' = r
  /\ calls' = <<>>
  /\ answered' = [answered EXCEPT !.log = <<>>]
  /\ featuredMediaId' = Undefined
  /\ uploadedImageUrl' = Undefined
  /\ authorId' = Undefined
  /\ categoryId' = Undefined
  /\ tagIds' = <<>>
  /\ putOutcome' = "none"
  /\ IF MissingCredentials
     THEN /\ response' = JsonResponse(400, FALSE, "Missing WordPress credentials", <<>>)
          /\ pc' = "done"
          /\ served' = served + 1
     ELSE /\ response' = NoResponse
          /\ pc' = "image"
          /\ served' = served
  /\ UNCHANGED <<configVars, remoteVars, updArgs, firstRun, consoleVars>>

\* an image step whose failed upload ends the request with the 500 of the catch
ImageStageMutAbort(fetched, uploaded) ==
  /\ handler = "publish" /\ pc = "image"
  /\ IF Truthy(req.suggestedImage) /\ Truthy(Str(trim(req.suggestedImage.v)))
     THEN LET up == uploadImageToWordPress(req.suggestedImage.v, fetched, uploaded)
          IN /\ calls' = calls \o up.calls
             /\ Answers(up.calls, <<fetched, uploaded>>)
             /\ remoteMedia' = remoteMedia \cup up.created
             /\ IF Truthy(up.result)
                THEN /\ featuredMediaId' = up.result.v.id
                     /\ uploadedImageUrl' = up.result.v.url
                     /\ pc' = "author"
                     /\ UNCHANGED <<response, served>>
                ELSE /\ response' = JsonResponse(500, FALSE, "Failed to publish post", <<>>)
                     /\ pc' = "done"
                     /\ served' = served + 1
                     /\ UNCHANGED <<featuredMediaId, uploadedImageUrl>>
     ELSE /\ pc' = "author"
          /\ UNCHANGED <<calls, answered, remoteMedia, featuredMediaId, uploadedImageUrl,
                         response, served>>
  /\ UNCHANGED <<configVars, remoteUsers, remoteCategories, remoteTags, remotePosts,
                 handler, req, authorId, categoryId, tagIds, putOutcome, updArgs, firstRun, consoleVars>>

\* an image test that takes a suggested image of white space for an image
ImageGivenMutUntrimmed(suggestedImage) == Truthy(suggestedImage)

\* suggestedImage && suggestedImage.trim()
ImageGiven(suggestedImage) ==
  Truthy(suggestedImage) /\ Truthy(Str(trim(suggestedImage.v)))

\* Step 1: upload the image if one is suggested; a failed upload is logged and
\* the handler goes on without a featured image
ImageStage(fetched, uploaded) ==
  /\ handler = "publish" /\ pc = "image"
  /\ IF ImageGiven(req.suggestedImage)
     THEN LET up == uploadImageToWordPress(req.suggestedImage.v, fetched, uploaded)
          IN /\ calls' = calls \o up.calls
             /\ Answers(up.calls, <<fetched, uploaded>>)
             /\ remoteMedia' = remoteMedia \cup up.created
             /\ IF Truthy(up.result)
                THEN /\ featuredMediaId' = up.result.v.id
                     /\ uploadedImageUrl' = up.result.v.url
                ELSE UNCHANGED <<featuredMediaId, uploadedImageUrl>>
     ELSE UNCHANGED <<calls, answered, remoteMedia, featuredMediaId, uploadedImageUrl>>
  /\ pc' = "author"
  /\ UNCHANGED <<configVars, remoteUsers, remoteCategories, remoteTags, remotePosts,
                 handler, req, response, served, authorId, categoryId, tagIds, putOutcome,
                 updArgs, firstRun, consoleVars>>

\* an author step that takes the author selected in the console when the
\* detected one is not found
AuthorStageMutSelected(outcome) ==
  /\ handler = "publish" /\ pc = "author"
  /\ LET got == getUserIdByName(req.detectedAuthorId.v, outcome)
     IN /\ calls' = calls \o got.calls
        /\ Answers(got.calls, <<outcome>>)
        /\ authorId' = OrElse(got.result, req.selectedAuthorId)
  /\ pc' = "category"
  /\ UNCHANGED <<configVars, remoteVars, handler, req, response, served,
                 featuredMediaId, uploadedImageUrl, categoryId, tagIds, putOutcome, updArgs, firstRun, consoleVars>>

\* Step 2: the author id of the detected author slug
AuthorStage(outcome) ==
  /\ handler = "publish" /\ pc = "author"
  /\ LET got == getUserIdByName(req.detectedAuthorId.v, outcome)
     IN /\ calls' = calls \o got.calls
        /\ Answers(got.calls, <<outcome>>)
        /\ authorId' = got.result
  /\ pc' = "category"
  /\ UNCHANGED <<configVars, remoteVars, handler, req, response, served,
                 featuredMediaId, uploadedImageUrl, categoryId, tagIds, putOutcome, updArgs, firstRun, consoleVars>>

\* a category step that is skipped when the author was not resolved
CategoryStageMutNeedsAuthor(outcome) ==
  /\ handler = "publish" /\ pc = "category"
  /\ IF Truthy(req.category) /\ Truthy(authorId)
     THEN LET got == getCategoryIdByName(req.category.v, outcome)
          IN /\ calls' = calls \o got.calls
             /\ Answers(got.calls, <<outcome>>)
             /\ categoryId' = got.result
     ELSE UNCHANGED <<calls, answered, categoryId>>
  /\ pc' = "tags"
  /\ UNCHANGED <<configVars, remoteVars, handler, req, response, served,
                 featuredMediaId, uploadedImageUrl, authorId, tagIds, putOutcome, updArgs, firstRun, consoleVars>>

\* the category id, if a category is given
CategoryStage(outcome) ==
  /\ handler = "publish" /\ pc = "category"
  /\ IF Truthy(req.category)
     THEN LET got == getCategoryIdByName(req.category.v, outcome)
          IN /\ calls' = calls \o got.calls
             /\ Answers(got.calls, <<outcome>>)
             /\ categoryId' = got.result
     ELSE UNCHANGED <<calls, answered, categoryId>>
  /\ pc' = "tags"
  /\ UNCHANGED <<configVars, remoteVars, handler, req, response, served,
                 featuredMediaId, uploadedImageUrl, authorId, tagIds, putOutcome, updArgs, firstRun, consoleVars>>

\* the tag ids, if tags are given
TagsStage(outcomes) ==
  /\ handler = "publish" /\ pc = "tags"
  /\ IF Truthy(req.tags) /\ Len(req.tags.v) > 0
     THEN LET got == getTagIdsByNames(req.tags.v, outcomes)
          IN /\ calls' = calls \o got.calls
             /\ Answers(got.calls, outcomes)
             /\ tagIds' = got.result
     ELSE UNCHANGED <<calls, answered, tagIds>>
  /\ pc' = "update"
  /\ UNCHANGED <<configVars, remoteVars, handler, req, response, served,
                 featuredMediaId, uploadedImageUrl, authorId, categoryId, putOutcome, updArgs, firstRun, consoleVars>>

\* success data that always report the suggested image
PublishDataMutSuggestedImage ==
  JSONStringify([postId |-> req.postId,
                 imageUrl |-> req.suggestedImage,
                 featured_media_id |-> featuredMediaId,
                 author_id |-> authorId,
                 category_id |-> categoryId,
                 tag_ids |-> Arr(tagIds),
                 seo_title |-> req.seoTitle,
                 seo_description |-> req.seoDescription,
                 detected_author |-> req.detectedAuthorId])

\* the data of the success response
PublishData ==
  JSONStringify([postId |-> req.postId,
                 imageUrl |-> OrElse(uploadedImageUrl, req.suggestedImage),
                 featured_media_id |-> featuredMediaId,
                 author_id |-> authorId,
                 category_id |-> categoryId,
                 tag_ids |-> Arr(tagIds),
                 seo_title |-> req.seoTitle,
                 seo_description |-> req.seoDescription,
                 detected_author |-> req.detectedAuthorId])

\* Step 3: the update, and the response: success when updateWordPressPost
\* returned true, otherwise the thrown error is caught and answered with 500.
\* The remote answers with a success status only for a post it holds.
UpdateStage(outcome) ==
  /\ handler = "publish" /\ pc = "update"
  /\ LET up == updateWordPressPost(req.postId, req.optimizedTitle, req.optimizedContent,
                                   featuredMediaId,
                                   OrElse(authorId, Undefined),
                                   categoryId,
                                   IF Len(tagIds) > 0 THEN Arr(tagIds) ELSE Undefined,
                                   IF Truthy(req.publish) THEN Str(<<"p">>) ELSE Str(<<"d">>),
                                   req.seoTitle, req.seoDescription, req.keywords,
                                   req.seoScore, outcome)
     IN /\ (outcome = "ok" /\ up.calls[1].method = "PUT")
              => up.calls[1].id \in DOMAIN remotePosts
        /\ calls' = calls \o up.calls
        /\ Answers(up.calls, <<outcome>>)
        /\ remotePosts' =
             IF outcome = "ok"
             THEN RemoteWrite(remotePosts, up.calls[1], RemotePost)
             ELSE remotePosts
        /\ response' =
             IF up.result
             THEN JsonResponse(200, TRUE, "", PublishData)
             ELSE JsonResponse(500, FALSE, "Failed to publish post", <<>>)
  /\ putOutcome' = outcome
  /\ pc' = "done"
  /\ served' = served + 1
  /\ UNCHANGED <<configVars, remoteUsers, remoteCategories, remoteTags, remoteMedia,
                 handler, req, featuredMediaId, uploadedImageUrl, authorId, categoryId,
                 tagIds, updArgs, firstRun, consoleVars>>

\* ------------------------------------------------------------ inputs
\* sequences over S of length at most n
SeqsUpTo(S, n) == UNION {[1..k -> S] : k \in 0..n}

AuthorSlugs == {<<"j","m">>, <<"j","&">>}
CategoryNames == {<<>>, <<"A","&">>, <<"z">>}
TagNames == {<<"N">>, <<"q">>}
ImageUrls == {<<>>, <<" ">>, <<"u">>}

\* the SEO fields of a request: all given, or none
SeoGiven == [seoTitle |-> Str(<<"s">>), seoDescription |-> Str(<<"e">>),
             keywords |-> Arr(<<Str(<<"k">>)>>), seoScore |-> Num(85)]
SeoOmitted == [seoTitle |-> Undefined, seoDescription |-> Undefined,
               keywords |-> Undefined, seoScore |-> Undefined]

PublishRequest(postId, image, selected, author, category, tags, publish, seo) ==
  [postId |-> Num(postId),
   optimizedTitle |-> Str(<<"T">>),
   optimizedContent |-> Str(<<"C">>),
   suggestedImage |-> Str(image),
   selectedAuthorId |-> selected,
   detectedAuthorId |-> Str(author),
   seoTitle |-> seo.seoTitle,
   seoDescription |-> seo.seoDescription,
   keywords |-> seo.keywords,
   seoScore |-> seo.seoScore,
   category |-> Str(category),
   tags |-> Arr(tags),
   publish |-> Bool(publish)]

Requests ==
  {PublishRequest(p, i, s, a, c, t, b, seo) :
     p \in {1}, i \in ImageUrls, s \in {Num(3)}, a \in AuthorSlugs,
     c \in CategoryNames, t \in SeqsUpTo(TagNames, MaxTags), b \in BOOLEAN,
     seo \in {SeoGiven, SeoOmitted}}

\* the requests of a run of several invocations: fewer of them, a state of the
\* remote being kept from one invocation to the next
SeqRequests ==
  {PublishRequest(p, i, Num(3), a, <<"A","&">>, t, TRUE, SeoGiven) :
     p \in {1, 2}, i \in {<<>>, <<"u">>}, a \in AuthorSlugs,
     t \in {<<>>, <<(<<"N">>)>>}}

NoRequest == [postId |-> Num(0)]

\* the optional arguments of updateWordPressPost: each given or omitted
UpdateArgs ==
  [featuredMediaId : {Undefined, Num(100)},
   authorId : {Undefined, Num(7)},
   categoryId : {Undefined, Null, Num(11)},
   tagIds : {Undefined, Arr(<<Num(21)>>)},
   seoTitle : {Undefined, Str(<<"s">>)},
   seoDescription : {Undefined, Str(<<"e">>)},
   keywords : {Undefined, Arr(<<>>), Arr(<<Str(<<"k">>)>>)},
   seoScore : {Undefined, Num(0), Num(85)}]

NoArgs == [featuredMediaId |-> Undefined]

CredentialValues == {Str(<<>>), Str(<<"x">>)}

InitPublish ==
  /\ WP_USERNAME \in CredentialValues
  /\ WP_PASSWORD \in CredentialValues
  /\ WORDPRESS_URL = Str(<<"h">>)
  /\ KeysConfigured
  /\ ConsoleUnmounted
  /\ remoteUsers = InitialUsers
  /\ remoteCategories = InitialCategories
  /\ remoteTags = InitialTags
  /\ remotePosts = InitialPosts
  /\ remoteMedia = {}
  /\ handler = "none"
  /\ pc = "idle"
  /\ req = NoRequest
  /\ response = NoResponse
  /\ calls = <<>>
  /\ served = 0
  /\ featuredMediaId = Undefined
  /\ uploadedImageUrl = Undefined
  /\ authorId = Undefined
  /\ categoryId = Undefined
  /\ tagIds = <<>>
  /\ putOutcome = "none"
  /\ updArgs = NoArgs

Init == InitPublish /\ Unobserved

\* the outcomes of the tag lookups of the request in progress, one per tag
TagOutcomes ==
  IF handler = "publish" /\ pc = "tags" /\ Truthy(req.tags)
  THEN [1..Len(req.tags.v) -> Outcomes]
  ELSE {<<>>}

PublishSteps ==
  \/ \E fetched \in Outcomes, uploaded \in Outcomes : ImageStage(fetched, uploaded)
  \/ \E outcome \in Outcomes : AuthorStage(outcome)
  \/ \E outcome \in Outcomes : CategoryStage(outcome)
  \/ \E outcomes \in TagOutcomes : TagsStage(outcomes)
  \/ \E outcome \in Outcomes : UpdateStage(outcome)

Next ==
  \/ served = 0 /\ \E r \in Requests : PublishBegin(r)
  \/ PublishSteps

Spec == Init /\ [][Next]_vars

\* publish requests served one after the other against the same remote
NextSeq ==
  \/ served < MaxInvocations /\ \E r \in SeqRequests : PublishBegin(r)
  \/ PublishSteps

SpecSeq == Init /\ [][NextSeq]_vars

\* one publish request, the answers of the remote observed
LookupRequests ==
  {PublishRequest(1, i, Num(3), a, c, t, TRUE, SeoGiven) :
     i \in {<<>>, <<"u">>}, a \in AuthorSlugs, c \in CategoryNames,
     t \in SeqsUpTo(TagNames, MaxTags)}

InitLookups == InitPublish /\ Observed

NextLookups ==
  \/ served = 0 /\ \E r \in LookupRequests : PublishBegin(r)
  \/ PublishSteps

SpecLookups == InitLookups /\ [][NextLookups]_vars

\* one publish request whose suggested image is absent, empty, of white
\* space or a URL, the answers of the remote observed
PipelineRequests ==
  LookupRequests
    \cup {PublishRequest(1, <<" ">>, Num(3), <<"j","m">>, c, t, FALSE, SeoOmitted) :
            c \in CategoryNames, t \in SeqsUpTo(TagNames, MaxTags)}
    \cup {[PublishRequest(1, <<>>, Num(3), <<"j","m">>, c, t, FALSE, SeoOmitted)
             EXCEPT !.suggestedImage = Undefined] :
            c \in CategoryNames, t \in SeqsUpTo(TagNames, MaxTags)}

NextPipeline ==
  \/ served = 0 /\ \E r \in PipelineRequests : PublishBegin(r)
  \/ PublishSteps

SpecPipeline == InitLookups /\ [][NextPipeline]_vars

\* one publish request whose category and tag names have capitals, spaces,
\* an ampersand, digits, a hyphen and the dotted capital I
SlugNames ==
  {<<"A","I"," ","&"," ","R","o","b","o","t","i","c","s">>,
   <<"W","e","b","-","3">>, <<DottedCapitalI, "z">>, <<"n">>}

SlugRequests ==
  {PublishRequest(1, <<>>, Num(3), <<"j","m">>, c, t, b, seo) :
     c \in SlugNames, t \in SeqsUpTo(SlugNames, MaxTags), b \in BOOLEAN,
     seo \in {SeoOmitted}}

NextSlugs ==
  \/ served = 0 /\ \E r \in SlugRequests : PublishBegin(r)
  \/ PublishSteps

SpecSlugs == Init /\ [][NextSlugs]_vars

\* a client that sends a publish request and, having seen it end, sends the
\* same request again; the remote answers the second invocation call by call
\* as it answered the first
InitRetry == InitPublish /\ Observed

\* the client sees the invocation end
ClientSeesEnd ==
  /\ handler = "publish" /\ pc = "done" /\ served = 1 /\ firstRun = NoRun
  /\ firstRun' = [served |-> served, req |-> req, answers |-> answered.log,
                  response |-> response, calls |-> calls, remotePosts |-> remotePosts,
                  remoteMedia |-> remoteMedia,
                  taxonomy |-> <<remoteUsers, remoteCategories, remoteTags>>]
  /\ UNCHANGED <<configVars, remoteVars, serverVars, publishVars, updArgs, answered,
                 consoleVars>>

\* the remote has answered the invocation in progress as it answered the
\* remembered one, as far as the invocation has got
AnswersRepeat ==
  firstRun # NoRun =>
    /\ Len(answered.log) <= Len(firstRun.answers)
    /\ answered.log = SubSeq(firstRun.answers, 1, Len(answered.log))

NextRetry ==
  \/ served = 0 /\ \E r \in SeqRequests : PublishBegin(r)
  \/ ClientSeesEnd
  \/ firstRun # NoRun /\ served = 1 /\ PublishBegin(firstRun.req)
  \/ \E fetched \in Outcomes, uploaded \in Outcomes :
        ImageStage(fetched, uploaded) /\ AnswersRepeat'
  \/ \E outcome \in Outcomes : AuthorStage(outcome) /\ AnswersRepeat'
  \/ \E outcome \in Outcomes : CategoryStage(outcome) /\ AnswersRepeat'
  \/ \E outcomes \in TagOutcomes : TagsStage(outcomes) /\ AnswersRepeat'
  \/ \E outcome \in Outcomes : UpdateStage(outcome) /\ AnswersRepeat'

SpecRetry == InitRetry /\ [][NextRetry]_vars

\* two publish requests that differ in selectedAuthorId only, each sent to the
\* remote in the same state and answered call by call in the same way
SelectedAuthorIds == {Undefined, Num(7)}

\* the remote is as the first request found it
RemoteRestored ==
  /\ firstRun # NoRun /\ served = 1 /\ pc = "done"
  /\ <<remotePosts, remoteMedia>> # <<InitialPosts, {}>>
  /\ remotePosts' = InitialPosts
  /\ remoteMedia' = {}
  /\ UNCHANGED <<configVars, remoteUsers, remoteCategories, remoteTags, serverVars,
                 publishVars, updArgs, observerVars, consoleVars>>

NextSelected ==
  \/ served = 0 /\ \E r \in SeqRequests : PublishBegin(r)
  \/ ClientSeesEnd
  \/ RemoteRestored
  \/ /\ firstRun # NoRun /\ served = 1 /\ <<remotePosts, remoteMedia>> = <<InitialPosts, {}>>
     /\ \E selected \in SelectedAuthorIds :
          PublishBegin([firstRun.req EXCEPT !.selectedAuthorId = selected])
  \/ \E fetched \in Outcomes, uploaded \in Outcomes :
        ImageStage(fetched, uploaded) /\ AnswersRepeat'
  \/ \E outcome \in Outcomes : AuthorStage(outcome) /\ AnswersRepeat'
  \/ \E outcome \in Outcomes : CategoryStage(outcome) /\ AnswersRepeat'
  \/ \E outcomes \in TagOutcomes : TagsStage(outcomes) /\ AnswersRepeat'
  \/ \E outcome \in Outcomes : UpdateStage(outcome) /\ AnswersRepeat'

SpecSelected == InitRetry /\ [][NextSelected]_vars

\* ------------------------------------------------------------ wp-posts GET
\* const title = post.title?.rendered || ''
RenderedTitle(post) ==
  IF post.title.t = "object" THEN OrElse(post.title.v.rendered, Str(<<>>)) ELSE Str(<<>>)

\* posts.filter(...) with seenTitles: a post is kept unless its title was seen
RECURSIVE FilterSeen(_, _)
FilterSeen(listed, seenTitles) ==
  IF listed = <<>> THEN <<>>
  ELSE LET title == RenderedTitle(Head(listed))
       IN IF title \in seenTitles
          THEN FilterSeen(Tail(listed), seenTitles)
          ELSE <<Head(listed)>> \o FilterSeen(Tail(listed), seenTitles \cup {title})

\* a listing handed on as the remote sent it
uniquePostsMutKeepAll(listed) == listed

uniquePosts(listed) == FilterSeen(listed, {})

\* the guard of the wp-posts route
ListPostsMissingCredentials == ~Truthy(WORDPRESS_URL) \/ MissingCredentials

\* GET of the wp-posts route: the guard, one GET on the posts of the remote,
\* the deduplication, the response
ListPostsGET(outcome, listing) ==
  /\ pc = "idle"
  /\ handler' = "posts"
  /\ pc' = "done"
  /\ served' = served + 1
  /\ IF ListPostsMissingCredentials
     THEN /\ response' = JsonResponse(400, FALSE, "Missing WordPress credentials", <<>>)
          /\ calls' = <<>>
     ELSE /\ calls' = <<Call("GET", "/wp/v2/posts", <<>>, 0, NoBody)>>
          /\ response' =
               IF outcome = "ok"
               THEN JsonResponse(200, TRUE, "", uniquePosts(listing))
               ELSE JsonResponse(500, FALSE, "Failed to fetch posts", <<>>)
  /\ Answers(calls', <<[outcome |-> outcome,
                        posts |-> IF outcome = "ok" THEN listing ELSE <<>>]>>)
  /\ UNCHANGED <<configVars, remoteVars, req, publishVars, updArgs, firstRun, consoleVars>>

\* ------------------------------------------------------------ wp-authors GET
\* the users of the remote as the users endpoint lists them
RemoteAuthors ==
  {[id |-> Num(remoteUsers[slug]), slug |-> Str(slug)] : slug \in DOMAIN remoteUsers}

\* GET of the wp-authors route
AuthorsGET(outcome) ==
  /\ pc = "idle"
  /\ handler' = "authors"
  /\ pc' = "done"
  /\ served' = served + 1
  /\ IF MissingCredentials
     THEN /\ response' = JsonResponse(400, FALSE, "Missing WordPress credentials", <<>>)
          /\ calls' = <<>>
     ELSE /\ calls' = <<Call("GET", "/wp/v2/users", <<>>, 0, NoBody)>>
          /\ response' =
               IF outcome = "ok"
               THEN JsonResponse(200, TRUE, "", RemoteAuthors)
               ELSE JsonResponse(500, FALSE, "Failed to fetch authors", <<>>)
  /\ UNCHANGED <<configVars, remoteVars, req, publishVars, updArgs, observerVars, consoleVars>>

\* ------------------------------------------------------------ save SEO data POST
\* metaFields: the Yoast keys of the fields given, in the order they are set
metaFields(r) ==
  LET m0 == <<>>
      m1 == IF Truthy(r.seoTitle)
            THEN Append(m0, <<"_yoast_wpseo_title", r.seoTitle>>) ELSE m0
      m2 == IF Truthy(r.seoDescription)
            THEN Append(m1, <<"_yoast_wpseo_metadesc", r.seoDescription>>) ELSE m1
  IN IF Truthy(r.keyword)
     THEN Append(m2, <<"_yoast_wpseo_focuskw", r.keyword>>) ELSE m2

\* the object of a list of entries
FromEntries(entries) ==
  [k \in {entries[i][1] : i \in DOMAIN entries} |->
     (CHOOSE e \in Range(entries) : e[1] = k)[2]]

MetaBody(entries) == [meta |-> Obj(FromEntries(entries))]

\* the loop over Object.entries(metaFields): one POST per field, each in its own
\* try/catch
FieldWrites(entries, postId) ==
  [i \in DOMAIN entries |->
     Call("POST", "/wp/v2/posts", <<>>, postId, MetaBody(<<entries[i]>>))]

\* what the combined write can come back with: as any call, or with a
\* non-success status and a body that is not JSON (the error page of a proxy)
MetaOutcomes == Outcomes \cup {"page"}

\* POST of the save-SEO route as far as it gets: the calls it issues and the
\* response it returns; the body of the combined write's response is read
\* (updateResponse.json()) before its status is looked at
saveSeoData(r, titleOutcome, metaOutcome) ==
  LET id == r.postId.v
      titleCall == Call("POST", "/wp/v2/posts", <<>>, id,
                        [yoast_head |-> Str(<<"<">> \o r.seoTitle.v \o <<">">>)])
      metaCall == Call("POST", "/wp/v2/posts", <<>>, id, MetaBody(metaFields(r)))
      first == IF Truthy(r.seoTitle) THEN <<titleCall>> ELSE <<>>
      failed == JsonResponse(500, FALSE, "Failed to save SEO data", <<>>)
      saved == JsonResponse(200, TRUE, "", [postId |-> r.postId])
  IN IF MissingCredentials
     THEN [calls |-> <<>>,
           response |-> JsonResponse(400, FALSE, "Missing WordPress credentials", <<>>)]
     ELSE IF ~Truthy(r.postId)
     THEN [calls |-> <<>>, response |-> JsonResponse(400, FALSE, "Missing postId", <<>>)]
     ELSE IF Truthy(r.seoTitle) /\ titleOutcome = "throw"
     THEN [calls |-> first, response |-> failed]
     ELSE IF metaOutcome \in {"throw", "page"}
     THEN [calls |-> Append(first, metaCall), response |-> failed]
     ELSE IF metaOutcome = "status"
     THEN [calls |-> Append(first, metaCall) \o FieldWrites(metaFields(r), id),
           response |-> saved]
     ELSE [calls |-> Append(first, metaCall), response |-> saved]

\* the writes among issued the remote accepts, applied in order
RECURSIVE ApplyWrites(_, _, _)
ApplyWrites(stored, issued, accepted) ==
  IF issued = <<>> THEN stored
  ELSE ApplyWrites(IF Head(accepted) = "ok"
                   THEN RemoteWrite(stored, Head(issued), RemotePost) ELSE stored,
                   Tail(issued), Tail(accepted))

\* the outcomes of the calls of a save: the title write, the combined write, and
\* the per-field writes
SeoOutcomes(r, titleOutcome, metaOutcome, fieldOutcomes) ==
  (IF Truthy(r.seoTitle) THEN <<titleOutcome>> ELSE <<>>)
    \o <<metaOutcome>> \o fieldOutcomes

SeoPOST(r, titleOutcome, metaOutcome, fieldOutcomes) ==
  /\ pc = "idle"
  /\ handler' = "seo"
  /\ pc' = "done"
  /\ served' = served + 1
  /\ req' = r
  /\ LET save == saveSeoData(r, titleOutcome, metaOutcome)
         accepted == SeoOutcomes(r, titleOutcome, metaOutcome, fieldOutcomes)
     IN /\ calls' = save.calls
        /\ response' = save.response
        /\ remotePosts' = ApplyWrites(remotePosts, save.calls,
                                      SubSeq(accepted, 1, Len(save.calls)))
        /\ Answers(save.calls, accepted)
  /\ UNCHANGED <<configVars, remoteUsers, remoteCategories, remoteTags, remoteMedia,
                 publishVars, updArgs, firstRun, consoleVars>>

\* the requests of the save-SEO route
SeoRequests ==
  [postId : {Undefined, Num(1)},
   seoTitle : {Undefined, Str(<<"s">>)},
   seoDescription : {Undefined, Str(<<"e">>)},
   keyword : {Undefined, Str(<<"k">>)},
   seoScore : {Num(85)}]

\* what the posts endpoint can list: posts whose titles repeat or are missing
ListedPosts ==
  [id : {Num(1), Num(2)},
   title : {Obj([rendered |-> Str(<<"a">>)]), Obj([rendered |-> Str(<<"b">>)]),
            Obj([rendered |-> Str(<<>>)]), Undefined}]

\* the wp-posts route alone, the listing of the remote observed
InitListPosts == InitPublish /\ Observed

NextListPosts ==
  \E outcome \in Outcomes, listing \in SeqsUpTo(ListedPosts, MaxPosts) :
    ListPostsGET(outcome, listing)

SpecListPosts == InitListPosts /\ [][NextListPosts]_vars

\* ------------------------------------------------------------ all four routes
InitRoutes ==
  /\ WP_USERNAME \in CredentialValues
  /\ WP_PASSWORD \in CredentialValues
  /\ WORDPRESS_URL \in {Undefined, Str(<<"h">>)}
  /\ KeysConfigured
  /\ ConsoleUnmounted
  /\ remoteUsers = InitialUsers
  /\ remoteCategories = InitialCategories
  /\ remoteTags = InitialTags
  /\ remotePosts = InitialPosts
  /\ remoteMedia = {}
  /\ handler = "none"
  /\ pc = "idle"
  /\ req = NoRequest
  /\ response = NoResponse
  /\ calls = <<>>
  /\ served = 0
  /\ featuredMediaId = Undefined
  /\ uploadedImageUrl = Undefined
  /\ authorId = Undefined
  /\ categoryId = Undefined
  /\ tagIds = <<>>
  /\ putOutcome = "none"
  /\ updArgs = NoArgs
  /\ Unobserved

NextRoutes ==
  \/ served = 0 /\ pc = "idle" /\ \E r \in SeqRequests : PublishBegin(r)
  \/ PublishSteps
  \/ \E outcome \in Outcomes, listing \in SeqsUpTo(ListedPosts, MaxListed) :
       ListPostsGET(outcome, listing)
  \/ \E outcome \in Outcomes : AuthorsGET(outcome)
  \/ \E r \in SeoRequests, o1 \in Outcomes, o2 \in MetaOutcomes,
        os \in [1..3 -> Outcomes] :
       SeoPOST(r, o1, o2, os)

SpecRoutes == InitRoutes /\ [][NextRoutes]_vars

\* the save-SEO route alone, the answers of the remote observed
NextSeo ==
  \E r \in SeoRequests, o1 \in Outcomes, o2 \in MetaOutcomes, os \in [1..3 -> Outcomes] :
    SeoPOST(r, o1, o2, os)

SpecSeo == InitLookups /\ [][NextSeo]_vars

\* ------------------------------------------------------------ optimize-content
\* the characters of s from lo to hi at the positions that kept maps to TRUE
RECURSIVE KeptBetween(_, _, _, _)
KeptBetween(s, kept, lo, hi) ==
  IF lo > hi THEN <<>>
  ELSE IF lo = hi THEN (IF kept[lo] THEN <<s[lo]>> ELSE <<>>)
  ELSE LET mid == (lo + hi) \div 2
       IN KeptBetween(s, kept, lo, mid) \o KeptBetween(s, kept, mid + 1, hi)

AtPositions(s, kept) == KeptBetween(s, kept, 1, Len(s))

\* s.replace(/<[^>]*>/g, ''): every '<' up to the next '>' goes; position i is
\* in such a match when a '<' at or before it has its next '>' at or after it
InsideTag(s, i) ==
  \E j \in 1..i :
    /\ s[j] = "<"
    /\ \A m \in (j + 1)..(i - 1) : s[m] # ">"
    /\ \E k \in i..Len(s) : k > j /\ s[k] = ">"

StripTags(s) ==
  IF \A i \in DOMAIN s : s[i] # "<" THEN s
  ELSE AtPositions(s, [i \in DOMAIN s |-> ~InsideTag(s, i)])

\* s.substring(0, n)
substring(s, n) == SubSeq(s, 1, IF Len(s) < n THEN Len(s) ELSE n)

\* \w of a regular expression
WordChars == Range(UpperLetters) \cup Range(LowerLetters) \cup Digits \cup {"_"}

\* s.replace(/[^\w\s-]/g, '')
RemoveSpecial(s) ==
  SelectSeq(s, LAMBDA c : c \in WordChars \cup WhiteSpace \cup {"-"})

\* s.replace(/\s+/g, ' '): a run of white space becomes one space
NormalizeSpaces(s) ==
  LET first == [i \in DOMAIN s |-> s[i] \in WhiteSpace => (i = 1 \/ s[i - 1] \notin WhiteSpace)]
      kept == AtPositions(s, first)
  IN [n \in DOMAIN kept |-> IF kept[n] \in WhiteSpace THEN " " ELSE kept[n]]

\* s.replace(/\s+\S*$/, ''): the last run of white space and what follows it go
DropLastWord(s) ==
  IF \E i \in DOMAIN s : s[i] \in WhiteSpace
  THEN LET last == CHOOSE i \in DOMAIN s :
                     s[i] \in WhiteSpace /\ \A k \in (i + 1)..Len(s) : s[k] \notin WhiteSpace
       IN TrimRight(SubSeq(s, 1, last))
  ELSE s

\* the query searchPixabay sends for a query that passed the length test
CleanQuery(trimmed) ==
  LET cleaned == trim(NormalizeSpaces(RemoveSpecial(trimmed)))
  IN IF Len(cleaned) > 100 THEN DropLastWord(substring(cleaned, 100)) ELSE cleaned

\* obj.key of a JSON value that is not null: undefined unless the value is an
\* object with that key
Field(obj, key) ==
  IF obj.t = "object" /\ key \in DOMAIN obj.v THEN obj.v[key] ELSE Undefined

\* data.hits.find((hit) => hit.largeImageURL) || data.hits[0]
bestImage(hits) ==
  IF \E i \in DOMAIN hits : Truthy(Field(hits[i], "largeImageURL"))
  THEN hits[CHOOSE i \in DOMAIN hits :
              /\ Truthy(Field(hits[i], "largeImageURL"))
              /\ \A k \in 1..(i - 1) : ~Truthy(Field(hits[k], "largeImageURL"))]
  ELSE hits[1]

\* a searchPixabay that tests the length of the query as given, untrimmed
searchPixabayMutUntrimmed(query, pix) ==
  LET searchQuery == CleanQuery(trim(query))
      fetched == <<Call("GET", "https://pixabay.com/api/", searchQuery, 0, NoBody)>>
  IN IF ~Truthy(PIXABAY_API_KEY) THEN [calls |-> <<>>, result |-> Null]
     ELSE IF Len(query) < 3 THEN [calls |-> <<>>, result |-> Null]
     ELSE IF pix.kind # "ok" THEN [calls |-> fetched, result |-> Null]
     ELSE IF pix.hits.t = "array" /\ Len(pix.hits.v) > 0
     THEN LET best == bestImage(pix.hits.v)
          IN [calls |-> fetched,
              result |-> Obj([url |-> OrElse(Field(best, "largeImageURL"),
                                             Field(best, "webformatURL")),
                              source |-> Str(<<"Pixabay">>)])]
     ELSE [calls |-> fetched, result |-> Null]

\* searchPixabay: the calls it issues and the image it returns (Null for none);
\* pix is the reply of the image service, [kind, hits]
searchPixabay(query, pix) ==
  LET trimmed == trim(query)
      searchQuery == CleanQuery(trimmed)
      fetched == <<Call("GET", "https://pixabay.com/api/", searchQuery, 0, NoBody)>>
  IN IF ~Truthy(PIXABAY_API_KEY) THEN [calls |-> <<>>, result |-> Null]
     ELSE IF Len(trimmed) < 3 THEN [calls |-> <<>>, result |-> Null]
     ELSE IF pix.kind # "ok" THEN [calls |-> fetched, result |-> Null]
     ELSE IF pix.hits.t = "array" /\ Len(pix.hits.v) > 0
     THEN LET best == bestImage(pix.hits.v)
          IN [calls |-> fetched,
              result |-> Obj([url |-> OrElse(Field(best, "largeImageURL"),
                                             Field(best, "webformatURL")),
                              source |-> Str(<<"Pixabay">>)])]
     ELSE [calls |-> fetched, result |-> Null]

\* imageResult?.url || '' and imageResult?.source || 'No image found'
ImageUrlOf(imageResult) == OrElse(Field(imageResult, "url"), Str(<<>>))
ImageSourceOf(imageResult) == OrElse(Field(imageResult, "source"), Str(<<"No image found">>))

\* ---- the text of a generation reply: a sequence of symbols, each a character
\* or one of the lexemes Fence (the three backquotes of a code fence), json,
\* null and the numbers of NumberValue
Fence == "[fence]"

\* aiContent.replace(/[fence]json\s*|\s*[fence]/g, "") scanning from the left:
\* at each position first a fence with json and the white space after it, else
\* the white space up to a fence
RECURSIVE StripFences(_)
StripFences(text) ==
  IF text = <<>> THEN <<>>
  ELSE IF Len(text) >= 2 /\ text[1] = Fence /\ text[2] = "json"
       THEN StripFences(TrimLeft(SubSeq(text, 3, Len(text))))
       ELSE IF TrimLeft(text) # <<>> /\ Head(TrimLeft(text)) = Fence
            THEN StripFences(Tail(TrimLeft(text)))
            ELSE <<Head(text)>> \o StripFences(Tail(text))

cleanedContent(aiContent) == trim(StripFences(aiContent))

\* the numbers that occur in replies
NumberValue == ("0" :> 0) @@ ("85" :> 85)

\* first position from i on that holds no white space
RECURSIVE SkipSpace(_, _)
SkipSpace(text, i) ==
  IF i <= Len(text) /\ text[i] \in WhiteSpace THEN SkipSpace(text, i + 1) ELSE i

ParseFailed == [ok |-> FALSE, v |-> Undefined, next |-> 0]

\* a string literal that opens at position i
ParseString(text, i) ==
  IF i <= Len(text) /\ text[i] = "\"" /\ \E j \in (i + 1)..Len(text) : text[j] = "\""
  THEN LET close == CHOOSE j \in (i + 1)..Len(text) :
                      text[j] = "\"" /\ \A k \in (i + 1)..(j - 1) : text[k] # "\""
       IN [ok |-> TRUE, v |-> Str(SubSeq(text, i + 1, close - 1)), next |-> close + 1]
  ELSE ParseFailed

RECURSIVE ParseValue(_, _)
RECURSIVE ParseMembers(_, _, _)
RECURSIVE ParseElements(_, _, _)

\* the members of an object from position i on, sofar being those read
ParseMembers(text, i, sofar) ==
  LET key == ParseString(text, SkipSpace(text, i))
      colon == SkipSpace(text, key.next)
  IN IF ~key.ok \/ colon > Len(text) \/ text[colon] # ":" THEN ParseFailed
     ELSE LET val == ParseValue(text, colon + 1)
              after == SkipSpace(text, val.next)
              read == Put(sofar, key.v.v, val.v)
          IN IF ~val.ok \/ after > Len(text) THEN ParseFailed
             ELSE IF text[after] = "}"
                  THEN [ok |-> TRUE, v |-> Obj(read), next |-> after + 1]
                  ELSE IF text[after] = ","
                       THEN ParseMembers(text, after + 1, read)
                       ELSE ParseFailed

\* the elements of an array from position i on
ParseElements(text, i, sofar) ==
  LET val == ParseValue(text, i)
      after == SkipSpace(text, val.next)
  IN IF ~val.ok \/ after > Len(text) THEN ParseFailed
     ELSE IF text[after] = "]"
          THEN [ok |-> TRUE, v |-> Arr(Append(sofar, val.v)), next |-> after + 1]
          ELSE IF text[after] = ","
               THEN ParseElements(text, after + 1, Append(sofar, val.v))
               ELSE ParseFailed

\* a JSON value from position i on
ParseValue(text, i) ==
  LET at == SkipSpace(text, i)
      inside == SkipSpace(text, at + 1)
  IN IF at > Len(text) THEN ParseFailed
     ELSE IF text[at] = "\"" THEN ParseString(text, at)
     ELSE IF text[at] = "null" THEN [ok |-> TRUE, v |-> Null, next |-> at + 1]
     ELSE IF text[at] \in DOMAIN NumberValue
          THEN [ok |-> TRUE, v |-> Num(NumberValue[text[at]]), next |-> at + 1]
     ELSE IF text[at] = "{"
          THEN IF inside <= Len(text) /\ text[inside] = "}"
               THEN [ok |-> TRUE, v |-> Obj(<<>>), next |-> inside + 1]
               ELSE ParseMembers(text, at + 1, <<>>)
     ELSE IF text[at] = "["
          THEN IF inside <= Len(text) /\ text[inside] = "]"
               THEN [ok |-> TRUE, v |-> Arr(<<>>), next |-> inside + 1]
               ELSE ParseElements(text, at + 1, <<>>)
     ELSE ParseFailed

\* JSON.parse: a value and nothing but white space after it
JSONParse(text) ==
  LET val == ParseValue(text, 1)
  IN IF val.ok /\ SkipSpace(text, val.next) > Len(text) THEN val ELSE ParseFailed

\* ---- optimizeWithAI of the route
\* the prompt sent to the generation service, as far as it depends on the post
Prompt(title, content, excerpt) == [title |-> title, content |-> content, excerpt |-> excerpt]

\* excerpt.replace(/<[^>]*>/g, '').trim().substring(0, 160)
ExcerptDescription(excerpt) == Str(substring(trim(StripTags(excerpt.v)), 160))

\* the result without a generation key (lines 95-112), the image found given
FallbackResult(query, content, excerpt, imageResult) ==
  [optimizedTitle |-> Str(query \o <<" ","-"," ","E","n","h","a","n","c","e","d">>),
   optimizedContent |-> content,
   suggestedImage |-> ImageUrlOf(imageResult),
   imageSource |-> ImageSourceOf(imageResult),
   keywords |-> Arr(<<Str(query)>>),
   seoScore |-> Num(65),
   seoTitle |-> Str(substring(query, 60)),
   seoDescription |-> ExcerptDescription(excerpt),
   category |-> Str(<<"a","i","-","t","e","c","h","n","o","l","o","g","y">>),
   tags |-> Arr(<<Str(<<"n","e","w","s">>), Str(<<"u","p","d","a","t","e">>), Str(<<"t","r","e","n","d","i","n","g">>)>>),
   detectedAuthor |-> Str(<<"j","m","a","s","o","n">>)]

\* the result from a parsed reply (lines 219-231)
ParsedResult(parsed, query, title, content, excerpt, imageResult) ==
  [optimizedTitle |-> OrElse(Field(parsed, <<"optimizedTitle">>), title),
   optimizedContent |-> OrElse(Field(parsed, <<"optimizedContent">>), content),
   suggestedImage |-> ImageUrlOf(imageResult),
   imageSource |-> ImageSourceOf(imageResult),
   keywords |-> OrElse(Field(parsed, <<"keywords">>), Arr(<<Str(query)>>)),
   seoScore |-> OrElse(Field(parsed, <<"seoScore">>), Num(70)),
   seoTitle |-> OrElse(Field(parsed, <<"seoTitle">>), Str(substring(query, 60))),
   seoDescription |-> IF Truthy(Field(parsed, <<"seoDescription">>))
                      THEN Field(parsed, <<"seoDescription">>)
                      ELSE ExcerptDescription(excerpt),
   category |-> OrElse(Field(parsed, <<"category">>), Str(<<"a","i","-","t","e","c","h","n","o","l","o","g","y">>)),
   tags |-> OrElse(Field(parsed, <<"tags">>), Arr(<<Str(<<"c","o","n","t","e","n","t">>)>>)),
   detectedAuthor |-> OrElse(Field(parsed, <<"recommendedAuthor">>), Str(<<"j","o","h","n","-","m","a","s","o","n">>))]

NoResult == <<>>

\* optimizeWithAI: the calls issued, whether it throws, and its result; ai is
\* the reply of the generation service [kind, content], pix that of the image
\* service
optimizeWithAI(title, content, excerpt, ai, pix) ==
  LET query == trim(StripTags(title.v))
      threw(issued) == [calls |-> issued, thrown |-> TRUE, result |-> NoResult]
      generate == <<Call("POST", "https://api.openai.com/v1/chat/completions", <<>>, 0,
                         Prompt(title, content, excerpt))>>
  IN IF title.t # "string" THEN threw(<<>>)
     ELSE IF ~Truthy(OPENAI_API_KEY)
     THEN LET search == searchPixabay(query, pix)
          IN IF excerpt.t # "string" THEN threw(search.calls)
             ELSE [calls |-> search.calls, thrown |-> FALSE,
                   result |-> FallbackResult(query, content, excerpt, search.result)]
     ELSE IF ai.kind # "ok" \/ ~Truthy(ai.content) THEN threw(generate)
     ELSE LET parse == JSONParse(cleanedContent(ai.content.v))
              parsed == parse.v
              imageQuery == OrElse(Field(parsed, <<"imageDescription">>), Str(query))
          IN IF ~parse.ok \/ parsed.t = "null" \/ imageQuery.t # "string"
             THEN threw(generate)
             ELSE LET search == searchPixabay(imageQuery.v, pix)
                      issued == generate \o search.calls
                  IN IF ~Truthy(Field(parsed, <<"seoDescription">>)) /\ excerpt.t # "string"
                     THEN threw(issued)
                     ELSE [calls |-> issued, thrown |-> FALSE,
                           result |-> ParsedResult(parsed, query, title, content,
                                                   excerpt, search.result)]

\* POST of the optimize-content route: the calls issued and the response; the
\* fields of a successful response are the data of the response
optimizeContent(r, ai, pix) ==
  IF ~Truthy(OPENAI_API_KEY)
  THEN [calls |-> <<>>, response |-> JsonResponse(400, FALSE, "Missing OpenAI API key", <<>>)]
  ELSE LET optimized == optimizeWithAI(r.title, r.content, r.excerpt, ai, pix)
       IN IF optimized.thrown
          THEN [calls |-> optimized.calls,
                response |-> JsonResponse(500, FALSE, "Failed to optimize content", <<>>)]
          ELSE [calls |-> optimized.calls,
                response |-> JsonResponse(200, TRUE, "", optimized.result)]

OptimizePOST(r, ai, pix) ==
  /\ pc = "idle"
  /\ handler' = "optimize"
  /\ pc' = "done"
  /\ served' = served + 1
  /\ req' = r
  /\ \E served_ \in {optimizeContent(r, ai, pix)} :
       /\ calls' = served_.calls
       /\ response' = served_.response
       /\ Answers(served_.calls, <<ai, pix>>)
  /\ UNCHANGED <<configVars, remoteVars, publishVars, updArgs, firstRun, consoleVars>>

\* ---- replies of the two services
Quote(str) == <<"\"">> \o str \o <<"\"">>
Member(name, valueText) == Quote(<<name>>) \o <<":", " ">> \o valueText
Fenced(text) == <<Fence, "json", "\n">> \o text \o <<"\n", Fence>>

\* a reply that gives some of the fields
SomeFields ==
  <<"{">> \o Member("seoTitle", Quote(<<"S">>)) \o <<",">>
          \o Member("imageDescription", Quote(<<"s","k","y">>)) \o <<",">>
          \o Member("seoScore", <<"85">>) \o <<",">>
          \o Member("tags", <<"[">> \o Quote(<<"N">>) \o <<"]">>) \o <<"}">>

\* a reply whose SEO title holds the three backquotes of a code fence
FenceInTitle == <<"{">> \o Member("seoTitle", Quote(<<"a", " ", Fence, "b">>)) \o <<"}">>

AiTexts == {SomeFields, Fenced(SomeFields), <<"{", "}">>, <<"S", "o", "r", "r", "y">>,
            <<"{">> \o Member("seoTitle", Quote(<<"S">>)), <<"85">>, <<"null">>,
            FenceInTitle, Fenced(FenceInTitle)}

AiReplies ==
  {[kind |-> "throw", content |-> Undefined], [kind |-> "status", content |-> Undefined],
   [kind |-> "ok", content |-> Undefined]}
    \cup {[kind |-> "ok", content |-> Str(text)] : text \in AiTexts}

Hit(large, web) == Obj([largeImageURL |-> large, webformatURL |-> web])

PixReplies ==
  {[kind |-> "throw", hits |-> Undefined], [kind |-> "status", hits |-> Undefined],
   [kind |-> "ok", hits |-> Undefined], [kind |-> "ok", hits |-> Arr(<<>>)],
   [kind |-> "ok", hits |-> Arr(<<Hit(Undefined, Str(<<"w">>)), Hit(Str(<<"l">>), Str(<<"v">>))>>)],
   [kind |-> "ok", hits |-> Arr(<<Hit(Undefined, Str(<<"w">>))>>)]}

\* the sequence of n times the character c
Repeat(c, n) == SubSeq([i \in 1..n |-> c], 1, n)

\* the requests of the optimize-content route: titles with markup, shorter than
\* a query may be, longer than an SEO title may be, or missing
OptimizeRequests ==
  [title : {Str(<<"<","b",">","N","e","w","s","!","<","/","b",">"," ">>), Str(<<"H", "i">>),
            Str(Repeat("a", 30) \o <<" ">> \o Repeat("b", 31)), Undefined},
   content : {Str(<<"c">>), Undefined},
   excerpt : {Str(<<"<","p",">","e","x","<","/","p",">">>), Str(Repeat("e", 161)), Undefined}]

InitOptimizeRoute ==
  /\ WP_USERNAME = Str(<<"u">>)
  /\ WP_PASSWORD = Str(<<"p">>)
  /\ WORDPRESS_URL = Str(<<"h">>)
  /\ OPENAI_API_KEY \in CredentialValues
  /\ PIXABAY_API_KEY \in CredentialValues
  /\ ConsoleUnmounted
  /\ remoteUsers = InitialUsers
  /\ remoteCategories = InitialCategories
  /\ remoteTags = InitialTags
  /\ remotePosts = InitialPosts
  /\ remoteMedia = {}
  /\ handler = "none"
  /\ pc = "idle"
  /\ req = NoRequest
  /\ response = NoResponse
  /\ calls = <<>>
  /\ served = 0
  /\ featuredMediaId = Undefined
  /\ uploadedImageUrl = Undefined
  /\ authorId = Undefined
  /\ categoryId = Undefined
  /\ tagIds = <<>>
  /\ putOutcome = "none"
  /\ updArgs = NoArgs

InitOptimize == InitOptimizeRoute /\ Unobserved

NextOptimize ==
  /\ pc = "idle"
  /\ \E r \in OptimizeRequests, ai \in AiReplies, pix \in PixReplies :
       OptimizePOST(r, ai, pix)

SpecOptimize == InitOptimize /\ [][NextOptimize]_vars

\* the optimize-content route, the replies of the two services observed
InitDefaults == InitOptimizeRoute /\ Observed

SpecDefaults == InitDefaults /\ [][NextOptimize]_vars

\* ---- searchPixabay alone
\* queries of searchPixabay: empty, of white space, shorter than 3 characters
\* once trimmed, with special characters, and longer than 100 characters with
\* the hundredth character inside a word, at the end of one, or after one
SearchQueries ==
  {<<>>, <<" ">>, <<" ", "\t", " ">>, <<"a">>, <<"a", "b">>, <<" ", "a", "b", " ">>,
   <<"a", " ", " ", " ">>, <<"\n", "a", "b">>,
   <<"a", "b", "c">>, <<"a", " ", "b">>, <<" ", "s", "k", "y", " ">>,
   <<"!", "!", "!">>, <<"a", "&", " ", " ", "b">>,
   Repeat("a", 100), Repeat("a", 101), Repeat("a", 100) \o <<" ", "b">>,
   Repeat("a", 99) \o <<" ", "b", "b">>, Repeat("a", 98) \o <<" ", "b", "b", "b">>,
   Repeat("a", 60) \o <<" ">> \o Repeat("b", 60),
   Repeat("a", 40) \o <<" ">> \o Repeat("b", 40) \o <<" ", "!", " ">> \o Repeat("c", 40),
   <<"a", " ">> \o Repeat("b", 120)}

InitSearch ==
  /\ WP_USERNAME = Str(<<"u">>)
  /\ WP_PASSWORD = Str(<<"p">>)
  /\ WORDPRESS_URL = Str(<<"h">>)
  /\ OPENAI_API_KEY = Str(<<"o">>)
  /\ PIXABAY_API_KEY \in CredentialValues
  /\ ConsoleUnmounted
  /\ remoteUsers = InitialUsers
  /\ remoteCategories = InitialCategories
  /\ remoteTags = InitialTags
  /\ remotePosts = InitialPosts
  /\ remoteMedia = {}
  /\ handler = "search"
  /\ pc = "idle"
  /\ req \in {[query |-> Str(q)] : q \in SearchQueries}
  /\ response = NoResponse
  /\ calls = <<>>
  /\ served = 0
  /\ featuredMediaId = Undefined
  /\ uploadedImageUrl = Undefined
  /\ authorId = Undefined
  /\ categoryId = Undefined
  /\ tagIds = <<>>
  /\ putOutcome = "none"
  /\ updArgs = NoArgs
  /\ Observed

\* a call of searchPixabay: the calls issued, and the image returned as the
\* data of the response
SearchCall(pix) ==
  /\ handler = "search" /\ pc = "idle"
  /\ \E search \in {searchPixabay(req.query.v, pix)} :
       /\ calls' = search.calls
       /\ Answers(search.calls, <<pix>>)
       /\ response' = [NoResponse EXCEPT !.data = search.result]
  /\ pc' = "done"
  /\ UNCHANGED <<configVars, remoteVars, handler, req, served, publishVars, updArgs,
                 firstRun, consoleVars>>

NextSearch == \E pix \in PixReplies : SearchCall(pix)

SpecSearch == InitSearch /\ [][NextSearch]_vars

\* ------------------------------------------------------------ the console
\* the list is rendered: !loading && !error && posts.length > 0
Visible == ~loading /\ ~Truthy(error) /\ Len(posts) > 0

PostIds == {posts[k].id : k \in DOMAIN posts}

\* list.includes(id), list.filter((x) => x !== id), [...list, id]
Includes(list, id) == \E k \in DOMAIN list : list[k] = id
Without(list, id) == SelectSeq(list, LAMBDA x : x # id)
Toggled(list, id) == IF Includes(list, id) THEN Without(list, id) ELSE Append(list, id)

\* posts.find((p) => p.id === postId), Undefined when there is none
FindPost(postId) ==
  IF \E k \in DOMAIN posts : posts[k].id = postId
  THEN posts[CHOOSE k \in DOMAIN posts :
               posts[k].id = postId /\ \A m \in 1..(k - 1) : posts[m].id # postId]
  ELSE Undefined

\* results.find((r) => r.postId === post.id)
FindResult(postId) ==
  IF \E k \in DOMAIN results : results[k].postId = postId
  THEN results[CHOOSE k \in DOMAIN results :
                 results[k].postId = postId /\ \A m \in 1..(k - 1) : results[m].postId # postId]
  ELSE Undefined

\* useEffect, fetchInitialData: the two fetches, each reply one of throw, fail
\* or ok with its data
fetchInitialData(postsReply, authorsReply) ==
  /\ loading
  /\ loading' = FALSE
  /\ posts' = IF postsReply.kind = "ok" THEN postsReply.data ELSE posts
  /\ error' = IF postsReply.kind = "throw" THEN Str(<<"Error fetching data">>)
              ELSE IF authorsReply.kind = "throw" THEN Str(<<"Error fetching data">>)
              ELSE IF postsReply.kind = "fail" THEN Str(<<"Failed to fetch draft posts">>)
              ELSE error
  /\ selectedAuthorId' =
       IF postsReply.kind # "throw" /\ authorsReply.kind = "ok" /\ Len(authorsReply.data) > 0
       THEN authorsReply.data[1].id
       ELSE selectedAuthorId
  /\ UNCHANGED <<configVars, remoteVars, serverVars, publishVars, updArgs, observerVars,
                 selectedPosts, optimizing, results, expandedPosts, publishStatus,
                 batch, index, newResults, batches, optimizeLog, publishLog>>

togglePostSelection(postId) ==
  /\ Visible
  /\ selectedPosts' = Toggled(selectedPosts, postId)
  /\ UNCHANGED <<configVars, remoteVars, serverVars, publishVars, updArgs, observerVars,
                 loading, error, posts, optimizing, results, expandedPosts, publishStatus,
                 selectedAuthorId, batch, index, newResults, batches, optimizeLog, publishLog>>

selectAll ==
  /\ Visible
  /\ selectedPosts' = [k \in DOMAIN posts |-> posts[k].id]
  /\ UNCHANGED <<configVars, remoteVars, serverVars, publishVars, updArgs, observerVars,
                 loading, error, posts, optimizing, results, expandedPosts, publishStatus,
                 selectedAuthorId, batch, index, newResults, batches, optimizeLog, publishLog>>

deselectAll ==
  /\ Visible
  /\ selectedPosts' = <<>>
  /\ UNCHANGED <<configVars, remoteVars, serverVars, publishVars, updArgs, observerVars,
                 loading, error, posts, optimizing, results, expandedPosts, publishStatus,
                 selectedAuthorId, batch, index, newResults, batches, optimizeLog, publishLog>>

toggleExpanded(postId) ==
  /\ Visible
  /\ expandedPosts' = Toggled(expandedPosts, postId)
  /\ UNCHANGED <<configVars, remoteVars, serverVars, publishVars, updArgs, observerVars,
                 loading, error, posts, selectedPosts, optimizing, results, publishStatus,
                 selectedAuthorId, batch, index, newResults, batches, optimizeLog, publishLog>>

\* an optimizeWithAI that clears the publish statuses with the results
OptimizeClickMutClearsStatus ==
  /\ Visible
  /\ ~optimizing /\ Len(selectedPosts) > 0
  /\ batches' = batches + 1
  /\ optimizing' = TRUE
  /\ error' = Null
  /\ results' = <<>>
  /\ batch' = selectedPosts
  /\ index' = 0
  /\ newResults' = <<>>
  /\ optimizeLog' = <<>>
  /\ publishStatus' = <<>>
  /\ UNCHANGED <<configVars, remoteVars, serverVars, publishVars, updArgs, observerVars,
                 loading, posts, selectedPosts, expandedPosts, selectedAuthorId, publishLog>>

\* the click on the optimize button (disabled while optimizing or with nothing
\* selected): optimizeWithAI up to its loop
OptimizeClick ==
  /\ Visible
  /\ ~optimizing /\ Len(selectedPosts) > 0
  /\ batches' = batches + 1
  /\ optimizing' = TRUE
  /\ error' = Null
  /\ results' = <<>>
  /\ batch' = selectedPosts
  /\ index' = 0
  /\ newResults' = <<>>
  /\ optimizeLog' = <<>>
  /\ UNCHANGED <<configVars, remoteVars, serverVars, publishVars, updArgs, observerVars,
                 loading, posts, selectedPosts, expandedPosts, publishStatus,
                 selectedAuthorId, publishLog>>

\* the entry pushed for a reply with data.success (lines 187-201)
SucceededResult(post, data, author) ==
  [postId |-> post.id,
   optimizedTitle |-> data.optimizedTitle,
   optimizedContent |-> data.optimizedContent,
   suggestedImage |-> data.suggestedImage,
   imageSource |-> data.imageSource,
   selectedAuthorId |-> OrElse(author, Undefined),
   keywords |-> OrElse(data.keywords, Arr(<<>>)),
   seoScore |-> OrElse(data.seoScore, Num(0)),
   seoTitle |-> OrElse(data.seoTitle, data.optimizedTitle),
   seoDescription |-> OrElse(data.seoDescription, Str(<<>>)),
   category |-> OrElse(data.category, Str(<<"a","i","-","t","e","c","h","n","o","l","o","g","y">>)),
   tags |-> OrElse(data.tags, Arr(<<>>)),
   detectedAuthor |-> OrElse(data.detectedAuthor, Str(<<"j","o","h","n","-","m","a","s","o","n">>))]

\* the entry pushed otherwise (lines 203-217 and 221-235), imageSource telling
\* which
FailedResult(post, source, author) ==
  [postId |-> post.id,
   optimizedTitle |-> post.title,
   optimizedContent |-> post.content,
   suggestedImage |-> Str(<<>>),
   imageSource |-> Str(<<source>>),
   selectedAuthorId |-> OrElse(author, Undefined),
   keywords |-> Arr(<<>>),
   seoScore |-> Num(0),
   seoTitle |-> Str(<<>>),
   seoDescription |-> Str(<<>>),
   category |-> Str(<<"a","i","-","t","e","c","h","n","o","l","o","g","y">>),
   tags |-> Arr(<<>>),
   detectedAuthor |-> Str(<<"j","o","h","n","-","m","a","s","o","n">>)]

\* the entry one iteration pushes for a post, given what its fetch brought:
\* "throw" for a fetch that failed, else the response of the route
ResultFor(post, reply, author) ==
  IF reply.kind = "throw" THEN FailedResult(post, "Error during optimization", author)
  ELSE IF reply.response.success THEN SucceededResult(post, reply.response.data, author)
  ELSE FailedResult(post, "Failed to generate suggestion", author)

\* a loop that records no entry for a post whose optimization failed
PushResultMutSkipFailed(list, entry) ==
  IF entry.seoScore = Num(0) /\ entry.suggestedImage = Str(<<>>) THEN list
  ELSE Append(list, entry)

\* newResults.push(entry)
PushResult(list, entry) == Append(list, entry)

\* what the fetch of one iteration brings: "throw" when it fails before a JSON
\* reply, else the response of the route, which got ai and pix from the two
\* services
FetchThrows == [kind |-> "throw", ai |-> Undefined, pix |-> Undefined]
FetchReplies(ais, pixs) ==
  {FetchThrows} \cup {[kind |-> "reply", ai |-> ai, pix |-> pix] : ai \in ais, pix \in pixs}

ReplyTo(body, fetched) ==
  IF fetched.kind = "throw" THEN [kind |-> "throw", response |-> NoResponse]
  ELSE [kind |-> "reply", response |-> optimizeContent(body, fetched.ai, fetched.pix).response]

\* one iteration of the loop of optimizeWithAI, and what follows the loop when
\* it was the last
OptimizeNext(fetched) ==
  /\ optimizing /\ index < Len(batch)
  /\ LET postId == batch[index + 1]
         post == FindPost(postId)
         body == [title |-> post.title, content |-> post.content, excerpt |-> post.excerpt]
     IN \E reply \in {ReplyTo(body, fetched)} :
        \E pushed \in {IF post = Undefined THEN newResults
                       ELSE PushResult(newResults, ResultFor(post, reply, selectedAuthorId))} :
          /\ newResults' = pushed
          /\ optimizeLog' = IF post = Undefined THEN optimizeLog
                            ELSE Append(optimizeLog, [postId |-> postId, body |-> body,
                                                      ai |-> fetched.ai, reply |-> reply])
          /\ index' = index + 1
          /\ IF index + 1 = Len(batch)
             THEN /\ results' = pushed
                  /\ expandedPosts' = [k \in DOMAIN pushed |-> pushed[k].postId]
                  /\ optimizing' = FALSE
             ELSE UNCHANGED <<results, expandedPosts, optimizing>>
  /\ UNCHANGED <<configVars, remoteVars, serverVars, publishVars, updArgs, observerVars,
                 loading, error, posts, selectedPosts, publishStatus, selectedAuthorId,
                 batch, batches, publishLog>>

\* publishStatus[postId], Undefined when there is none
StatusOf(postId) ==
  IF postId \in DOMAIN publishStatus THEN publishStatus[postId] ELSE Undefined

\* the publish buttons of a post are rendered (lines 386-388, 662-694)
PublishOffered(postId) ==
  /\ Visible
  /\ postId \in PostIds
  /\ FindResult(postId) # Undefined
  /\ Includes(expandedPosts, postId)
  /\ LET status == StatusOf(postId)
     IN IF status = Undefined THEN TRUE
        ELSE ~status.publishing /\ ~status.published /\ ~Truthy(status.error)

\* the body publishToWordPress sends
PublishBody(result, publish) ==
  JSONStringify(
    [postId |-> Num(result.postId),
     optimizedTitle |-> result.optimizedTitle,
     optimizedContent |-> result.optimizedContent,
     suggestedImage |-> result.suggestedImage,
     selectedAuthorId |-> result.selectedAuthorId,
     detectedAuthorId |-> result.detectedAuthor,
     seoTitle |-> result.seoTitle,
     seoDescription |-> result.seoDescription,
     keywords |-> result.keywords,
     seoScore |-> result.seoScore,
     category |-> result.category,
     tags |-> result.tags,
     publish |-> Bool(publish)])

\* the optimization of the batch that made the result of a post
OptimizationOf(postId) ==
  optimizeLog[CHOOSE k \in DOMAIN optimizeLog : optimizeLog[k].postId = postId]

\* a click on Publish to WordPress or Save as Draft: publishToWordPress up to
\* its fetch
PublishClick(postId, publish) ==
  /\ PublishOffered(postId)
  /\ publishStatus' = Put(publishStatus, postId,
                          [publishing |-> TRUE, published |-> FALSE, error |-> Null])
  /\ publishLog' = Append(publishLog, [postId |-> postId,
                                       request |-> PublishBody(FindResult(postId), publish),
                                       optimization |-> OptimizationOf(postId),
                                       reply |-> <<>>])
  /\ UNCHANGED <<configVars, remoteVars, serverVars, publishVars, updArgs, observerVars,
                 loading, error, posts, selectedPosts, optimizing, results, expandedPosts,
                 selectedAuthorId, batch, index, newResults, batches, optimizeLog>>

\* the requests of the log that are still in flight for a post
InFlight(postId) ==
  {k \in DOMAIN publishLog : publishLog[k].postId = postId /\ publishLog[k].reply = <<>>}

\* a console that shows a post published whatever its request came back with
PublishedStatusMutAnyReply(reply) ==
  [publishing |-> FALSE, published |-> TRUE, error |-> Null]

\* a publishToWordPress without its catch: a fetch that rejects leaves the
\* entry as the click made it
PublishedStatusMutNoCatch(reply) ==
  IF reply.kind = "throw" THEN [publishing |-> TRUE, published |-> FALSE, error |-> Null]
  ELSE [publishing |-> FALSE,
        published |-> reply.kind = "ok",
        error |-> IF reply.kind = "ok" THEN Null
                  ELSE OrElse(reply.error, Str(<<"Failed to publish">>))]

\* the status entry publishToWordPress writes for a reply (lines 279-312)
PublishedStatus(reply) ==
  [publishing |-> FALSE,
   published |-> reply.kind = "ok",
   error |-> CASE reply.kind = "ok" -> Null
               [] reply.kind = "fail" -> OrElse(reply.error, Str(<<"Failed to publish">>))
               [] OTHER -> Str(<<"Error publishing post">>)]

\* a publishToWordPress that writes the status of its post into the statuses
\* it saw when the component mounted, none, instead of the current ones
PublishReplyMutStale(postId, reply) ==
  /\ postId \in DOMAIN publishStatus /\ publishStatus[postId].publishing
  /\ InFlight(postId) # {}
  /\ publishStatus' = Put(<<>>, postId, PublishedStatus(reply))
  /\ \E k \in {CHOOSE k \in InFlight(postId) : \A m \in InFlight(postId) : k <= m} :
       publishLog' = [publishLog EXCEPT ![k].reply = <<reply>>]
  /\ UNCHANGED <<configVars, remoteVars, serverVars, publishVars, updArgs, observerVars,
                 loading, error, posts, selectedPosts, optimizing, results, expandedPosts,
                 selectedAuthorId, batch, index, newResults, batches, optimizeLog>>

\* publishToWordPress after its fetch: the reply is "ok", "fail" with or
\* without an error text, or "throw"; the log keeps the reply next to the
\* request it answers
PublishReply(postId, reply) ==
  /\ postId \in DOMAIN publishStatus /\ publishStatus[postId].publishing
  /\ InFlight(postId) # {}
  /\ publishStatus' = Put(publishStatus, postId, PublishedStatus(reply))
  /\ \E k \in {CHOOSE k \in InFlight(postId) : \A m \in InFlight(postId) : k <= m} :
       publishLog' = [publishLog EXCEPT ![k].reply = <<reply>>]
  /\ UNCHANGED <<configVars, remoteVars, serverVars, publishVars, updArgs, observerVars,
                 loading, error, posts, selectedPosts, optimizing, results, expandedPosts,
                 selectedAuthorId, batch, index, newResults, batches, optimizeLog>>

\* ---- what the console is given
WPPost(id, title) ==
  [id |-> id, title |-> Str(title), content |-> Str(<<"c">>), excerpt |-> Str(<<"<","p",">","e","x","<","/","p",">">>)]

PostsReplies ==
  {[kind |-> "throw", data |-> <<>>], [kind |-> "fail", data |-> <<>>],
   [kind |-> "ok", data |-> <<>>],
   [kind |-> "ok", data |-> <<WPPost(1, <<"<","b",">","N","e","w","s","!","<","/","b",">"," ">>), WPPost(2, <<"H", "i">>)>>]}

AuthorsReplies ==
  {[kind |-> "throw", data |-> <<>>], [kind |-> "ok", data |-> <<[id |-> Num(7)]>>]}

PublishReplies ==
  {[kind |-> "ok", error |-> Undefined],
   [kind |-> "fail", error |-> Str(<<"Failed to publish post">>)],
   [kind |-> "fail", error |-> Str(<<>>)],
   [kind |-> "throw", error |-> Undefined]}

\* the generation replies the console's batches meet
BatchAiReplies ==
  {[kind |-> "ok", content |-> Str(<<"S", "o", "r", "r", "y">>)],
   [kind |-> "ok", content |-> Str(Fenced(SomeFields))]}

BatchPixReplies ==
  {[kind |-> "ok", hits |-> Arr(<<Hit(Str(<<"l">>), Str(<<"v">>))>>)]}

InitConsole ==
  /\ WP_USERNAME = Str(<<"u">>)
  /\ WP_PASSWORD = Str(<<"p">>)
  /\ WORDPRESS_URL = Str(<<"h">>)
  /\ KeysConfigured
  /\ ConsoleUnmounted
  /\ remoteUsers = InitialUsers
  /\ remoteCategories = InitialCategories
  /\ remoteTags = InitialTags
  /\ remotePosts = InitialPosts
  /\ remoteMedia = {}
  /\ handler = "none"
  /\ pc = "idle"
  /\ req = NoRequest
  /\ response = NoResponse
  /\ calls = <<>>
  /\ served = 0
  /\ featuredMediaId = Undefined
  /\ uploadedImageUrl = Undefined
  /\ authorId = Undefined
  /\ categoryId = Undefined
  /\ tagIds = <<>>
  /\ putOutcome = "none"
  /\ updArgs = NoArgs
  /\ Unobserved

\* the operator changes the selection while a batch can still be started
NextConsole ==
  \/ loading /\ \E postsReply \in PostsReplies, authorsReply \in AuthorsReplies :
                  fetchInitialData(postsReply, authorsReply)
  \/ batches < MaxBatches /\ \E postId \in PostIds : togglePostSelection(postId)
  \/ batches < MaxBatches /\ selectAll
  \/ batches < MaxBatches /\ deselectAll
  \/ \E postId \in PostIds : toggleExpanded(postId)
  \/ batches < MaxBatches /\ OptimizeClick
  \/ optimizing /\ \E fetched \in FetchReplies(BatchAiReplies, BatchPixReplies) :
                     OptimizeNext(fetched)
  \/ \E postId \in PostIds, publish \in BOOLEAN : PublishClick(postId, publish)
  \/ \E postId \in PostIds, reply \in PublishReplies : PublishReply(postId, reply)

SpecConsole == InitConsole /\ [][NextConsole]_vars

\* a page session in which the batch optimization is run again: both posts
\* listed, the selection changed between the runs
MaxRuns == 2

NextSession ==
  \/ loading /\ \E postsReply \in {r \in PostsReplies : Len(r.data) > 0},
                   authorsReply \in {r \in AuthorsReplies : r.kind = "ok"} :
                  fetchInitialData(postsReply, authorsReply)
  \/ batches < MaxRuns /\ ~optimizing /\ \E postId \in PostIds : togglePostSelection(postId)
  \/ batches < MaxRuns /\ OptimizeClick
  \/ optimizing /\ \E fetched \in FetchReplies({r \in BatchAiReplies : Head(r.content.v) = Fence},
                                                 BatchPixReplies) :
                     OptimizeNext(fetched)
  \/ \E postId \in PostIds, publish \in BOOLEAN : PublishClick(postId, publish)
  \/ \E postId \in PostIds, reply \in PublishReplies : PublishReply(postId, reply)

SpecSession == InitConsole /\ [][NextSession]_vars

\* ---- the console and the publish route together
\* request.json() of a body of the console: the tags as the names they are
Received(body) ==
  [body EXCEPT !.tags = Arr([k \in DOMAIN body.tags.v |-> body.tags.v[k].v])]

\* the route is serving, or has served and not yet answered, the request k of
\* the log
Serving(k) ==
  handler = "publish" /\ req = Received(publishLog[k].request) /\ publishLog[k].reply = <<>>

\* the route takes up a request of the console that is in flight, the one
\* before it having been answered
ServePublish(k) ==
  /\ publishLog[k].reply = <<>>
  /\ \A m \in DOMAIN publishLog : ~Serving(m)
  /\ PublishBegin(Received(publishLog[k].request))

\* what response.json() gives the console for a response of the route
RouteReply(served_) ==
  IF served_.success THEN [kind |-> "ok", error |-> Undefined]
  ELSE [kind |-> "fail", error |-> Str(<<served_.error>>)]

\* the response of the route reaches the console, or is lost on the way and
\* the fetch of the console rejects
DeliverReply(postId) ==
  /\ pc = "done"
  /\ \E k \in InFlight(postId) : Serving(k)
  /\ \E reply \in {RouteReply(response), [kind |-> "throw", error |-> Undefined]} :
       PublishReply(postId, reply)

NextLive ==
  \/ loading /\ \E postsReply \in {r \in PostsReplies : Len(r.data) > 0},
                   authorsReply \in {r \in AuthorsReplies : r.kind = "ok"} :
                  fetchInitialData(postsReply, authorsReply)
  \/ batches < MaxBatches /\ selectAll
  \/ batches < MaxBatches /\ OptimizeClick
  \/ optimizing /\ \E fetched \in FetchReplies({r \in BatchAiReplies : Head(r.content.v) = Fence},
                                                 BatchPixReplies) :
                     OptimizeNext(fetched)
  \/ \E postId \in PostIds, publish \in BOOLEAN : PublishClick(postId, publish)
  \/ \E k \in DOMAIN publishLog : ServePublish(k)
  \/ PublishSteps
  \/ \E postId \in PostIds : DeliverReply(postId)

\* every call comes back or fails: the route takes up a request in flight,
\* each call of the pipeline is answered, and the fetch of the console ends
Fairness ==
  /\ WF_vars(\E k \in DOMAIN publishLog : ServePublish(k))
  /\ WF_vars(PublishSteps)
  /\ WF_vars(\E postId \in PostIds : DeliverReply(postId))

SpecLive == InitConsole /\ [][NextLive]_vars /\ Fairness

\* ------------------------------------------------------------ updatePost alone
\* updateWordPressPost called on post 1 with every choice of optional arguments
InitUpdate ==
  /\ WP_USERNAME = Str(<<"x">>)
  /\ WP_PASSWORD = Str(<<"x">>)
  /\ WORDPRESS_URL = Str(<<"h">>)
  /\ KeysConfigured
  /\ ConsoleUnmounted
  /\ remoteUsers = InitialUsers
  /\ remoteCategories = InitialCategories
  /\ remoteTags = InitialTags
  /\ remotePosts = InitialPosts
  /\ remoteMedia = {}
  /\ handler = "update"
  /\ pc = "idle"
  /\ req = NoRequest
  /\ response = NoResponse
  /\ calls = <<>>
  /\ served = 0
  /\ featuredMediaId = Undefined
  /\ uploadedImageUrl = Undefined
  /\ authorId = Undefined
  /\ categoryId = Undefined
  /\ tagIds = <<>>
  /\ putOutcome = "none"
  /\ updArgs \in UpdateArgs
  /\ Unobserved

UpdateCall(outcome) ==
  /\ handler = "update" /\ pc = "idle"
  /\ LET up == updateWordPressPost(Num(1), Str(<<"T">>), Str(<<"C">>),
                                   updArgs.featuredMediaId, updArgs.authorId,
                                   updArgs.categoryId, updArgs.tagIds, Str(<<"d">>),
                                   updArgs.seoTitle, updArgs.seoDescription,
                                   updArgs.keywords, updArgs.seoScore, outcome)
     IN /\ calls' = calls \o up.calls
        /\ remotePosts' =
             IF outcome = "ok"
             THEN RemoteWrite(remotePosts, up.calls[1], RemotePost)
             ELSE remotePosts
  /\ putOutcome' = outcome
  /\ pc' = "done"
  /\ UNCHANGED <<configVars, remoteUsers, remoteCategories, remoteTags, remoteMedia,
                 handler, req, response, served, featuredMediaId, uploadedImageUrl,
                 authorId, categoryId, tagIds, updArgs, observerVars, consoleVars>>

NextUpdate == \E outcome \in Outcomes : UpdateCall(outcome)

SpecUpdate == InitUpdate /\ [][NextUpdate]_vars

\* ------------------------------------------------------------ claims
\* the calls of the request in progress to one endpoint (in the order issued)
CallsTo(method, url) == SelectSeq(calls, LAMBDA c : c.method = method /\ c.url = url)

\* the publish request has been answered by the pipeline itself (not by the
\* credential guard)
PublishDone == handler = "publish" /\ pc = "done" /\ ~MissingCredentials

\* C1: a publish response reports success only if the PUT came back with a
\* success status; whenever the PUT came back with a non-success status or did
\* not come back, the response is the 500 failure with an error text, whatever
\* the media upload and the lookups did.
C1_UpdateDecidesSuccess ==
  handler = "publish" =>
    /\ response.success => (putOutcome = "ok" /\ response.status = 200)
    /\ putOutcome \in {"status", "throw"} =>
         /\ pc = "done"
         /\ response.success = FALSE
         /\ response.status = 500
         /\ response.error # ""

\* C1 witness: the media upload and all three lookups succeeded, the PUT came
\* back with a non-success status, and the response is the 500
C1_Witness ==
  /\ PublishDone
  /\ featuredMediaId.t = "number" /\ authorId.t = "number"
  /\ categoryId.t = "number" /\ Len(tagIds) > 0
  /\ putOutcome = "status"
  /\ response.status = 500

\* C2: whatever the media step did, the author lookup, the category lookup (when
\* a category is given), the tag lookups (when tags are given) and the post
\* update are issued; the update carries the uploaded media's id when the upload
\* succeeded and no featured_media at all when it did not.
C2_ImageStageNeverAborts ==
  PublishDone =>
    LET put == calls[Len(calls)]
    IN /\ Len(calls) > 0
       /\ put.method = "PUT" /\ put.url = "/wp/v2/posts"
       /\ Len(CallsTo("GET", "/wp/v2/users")) = 1
       /\ Truthy(req.category) => Len(CallsTo("GET", "/wp/v2/categories")) = 1
       /\ Len(req.tags.v) > 0 => Len(CallsTo("GET", "/wp/v2/tags")) >= 1
       /\ IF remoteMedia # {}
          THEN /\ "featured_media" \in DOMAIN put.body
               /\ put.body.featured_media.t = "number"
               /\ put.body.featured_media.v \in remoteMedia
          ELSE "featured_media" \notin DOMAIN put.body

\* C2 witness: the image was fetched, the upload was refused, and the update was
\* still issued after the lookups, without a featured image
C2_Witness ==
  /\ PublishDone
  /\ Len(CallsTo("POST", "/wp/v2/media")) = 1
  /\ remoteMedia = {}
  /\ Len(CallsTo("GET", "/wp/v2/categories")) = 1
  /\ Len(CallsTo("GET", "/wp/v2/tags")) = MaxTags
  /\ calls[Len(calls)].method = "PUT"
  /\ "featured_media" \notin DOMAIN calls[Len(calls)].body

\* C8: one invocation issues at most one image fetch, one media upload, one
\* author lookup, one category lookup, one post update, and one tag lookup per
\* entry of the tag list, in the order of the list, whatever the calls return.
C8_NoRetry ==
  handler = "publish" =>
    LET tagCalls == CallsTo("GET", "/wp/v2/tags")
    IN /\ Len(CallsTo("GET", "image")) <= 1
       /\ Len(CallsTo("POST", "/wp/v2/media")) <= 1
       /\ Len(CallsTo("GET", "/wp/v2/users")) <= 1
       /\ Len(CallsTo("GET", "/wp/v2/categories")) <= 1
       /\ Len(CallsTo("PUT", "/wp/v2/posts")) <= 1
       /\ Len(tagCalls) <= Len(req.tags.v)
       /\ \A i \in DOMAIN tagCalls : tagCalls[i].slug = Slugify(req.tags.v[i])
       /\ Len(calls) = Len(CallsTo("GET", "image")) + Len(CallsTo("POST", "/wp/v2/media"))
                       + Len(CallsTo("GET", "/wp/v2/users"))
                       + Len(CallsTo("GET", "/wp/v2/categories"))
                       + Len(tagCalls) + Len(CallsTo("PUT", "/wp/v2/posts"))

\* C8 witness: every stage made its call, the upload, the author lookup and the
\* update failed, and nothing was asked twice
C8_Witness ==
  /\ PublishDone
  /\ Len(CallsTo("POST", "/wp/v2/media")) = 1 /\ remoteMedia = {}
  /\ authorId = Null /\ req.detectedAuthorId.v \in DOMAIN remoteUsers
  /\ Len(CallsTo("GET", "/wp/v2/tags")) = MaxTags
  /\ putOutcome = "throw"

C10_NeverCreatesPosts ==
  /\ DOMAIN remotePosts = DOMAIN InitialPosts
  /\ \A i \in DOMAIN calls :
       calls[i].url = "/wp/v2/posts" =>
         /\ calls[i].method = "PUT"
         /\ calls[i].id = req.postId.v
  /\ \A p \in DOMAIN remotePosts :
       (handler = "publish" /\ p # req.postId.v
          /\ (served = 0 \/ (served = 1 /\ pc = "done"))) =>
         remotePosts[p] = InitialPosts[p]

\* C10 witness: two invocations have each updated their own post
C10_Witness ==
  /\ PublishDone /\ served = 2
  /\ remotePosts[1] # InitialPosts[1]
  /\ remotePosts[2] # InitialPosts[2]

\* the key of the PUT body, and of its meta object, that carries each optional
\* argument of updateWordPressPost
BodyKeyOf ==
  [featuredMediaId |-> "featured_media", authorId |-> "author",
   categoryId |-> "categories", tagIds |-> "tags"]
MetaKeyOf ==
  [seoTitle |-> "rank_math_title", seoDescription |-> "rank_math_description",
   keywords |-> "rank_math_focus_keyword", seoScore |-> "rank_math_score"]

\* C3: the PUT of updateWordPressPost carries no value for an optional argument
\* the caller omitted (featured media, author, category, tags, SEO title, SEO
\* description, keywords, SEO score), and the remote value of that field is as
\* it was before.
C3_OnlySuppliedFieldsSent ==
  (handler = "update" /\ pc = "done") =>
    LET body == calls[1].body
    IN /\ \A a \in DOMAIN BodyKeyOf :
            updArgs[a] = Undefined =>
              /\ BodyKeyOf[a] \notin DOMAIN body
              /\ remotePosts[1][BodyKeyOf[a]] = InitialPosts[1][BodyKeyOf[a]]
       /\ \A a \in DOMAIN MetaKeyOf :
            updArgs[a] = Undefined =>
              /\ "meta" \in DOMAIN body => MetaKeyOf[a] \notin DOMAIN body.meta.v
              /\ remotePosts[1].meta.v[MetaKeyOf[a]] = InitialPosts[1].meta.v[MetaKeyOf[a]]

\* C7: with the username or the password not configured, the publish, list
\* posts, list authors and save-SEO routes answer at once with the failure
\* 'Missing WordPress credentials', having issued no remote call and changed
\* nothing on the remote.
C7_MissingCredentialsNoCalls ==
  (~Truthy(WP_USERNAME) \/ ~Truthy(WP_PASSWORD)) =>
    /\ calls = <<>>
    /\ pc \in {"idle", "done"}
    /\ remotePosts = InitialPosts /\ remoteMedia = {}
    /\ pc = "done" =>
         /\ handler \in {"publish", "posts", "authors", "seo"}
         /\ response.success = FALSE
         /\ response.status = 400
         /\ response.error = "Missing WordPress credentials"

\* C7 witness: only the password is missing and a publish request that suggests
\* an image has been answered
C7_Witness ==
  /\ Truthy(WP_USERNAME) /\ ~Truthy(WP_PASSWORD)
  /\ handler = "publish" /\ pc = "done"
  /\ Truthy(req.suggestedImage)
  /\ response.error = "Missing WordPress credentials"

\* C6: with no generation key configured, an optimize request is answered with
\* a successful degraded result whose seoTitle has at most 60 characters and
\* whose seoDescription has at most 160, after exactly one image search with
\* the bare title as the query.
C6_NoKeyDegradedResult ==
  (handler = "optimize" /\ pc = "done" /\ ~Truthy(OPENAI_API_KEY)
     /\ req.title.t = "string" /\ req.excerpt.t = "string"
     /\ Truthy(PIXABAY_API_KEY) /\ Len(trim(StripTags(req.title.v))) >= 3) =>
    /\ response.success = TRUE
    /\ Len(response.data.seoTitle.v) <= 60
    /\ Len(response.data.seoDescription.v) <= 160
    /\ Len(calls) = 1
    /\ calls[1].url = "https://pixabay.com/api/"
    /\ calls[1].slug = CleanQuery(trim(StripTags(req.title.v)))

\* the generation reply of an optimization is text that does not parse as JSON
ParseFailure(optimization) ==
  /\ optimization.reply.kind = "reply"
  /\ optimization.ai.kind = "ok" /\ Truthy(optimization.ai.content)
  /\ ~JSONParse(cleanedContent(optimization.ai.content.v)).ok

\* C4: a post whose generation reply could not be parsed is failed by the
\* route, gets no result of defaults in the console, is not offered for
\* publishing, and no publish request is sent for it.
C4_ParseFailureNotPublished ==
  /\ \A k \in DOMAIN optimizeLog :
       ParseFailure(optimizeLog[k]) =>
         /\ ~optimizeLog[k].reply.response.success
         /\ ~optimizing =>
              /\ FindResult(optimizeLog[k].postId) = Undefined
              /\ ~PublishOffered(optimizeLog[k].postId)
  /\ \A k \in DOMAIN publishLog : ~ParseFailure(publishLog[k].optimization)

\* the posts of the batch that are in the post list, in selection order
BatchPosts == SelectSeq(batch, LAMBDA id : id \in PostIds)

\* C5: in a batch every selected post of the list gets exactly one optimize
\* request and exactly one result entry, in selection order, whatever the
\* earlier optimizations of the batch came to, and the entry of a post is made
\* of its own reply only.
C5_BatchIsolation ==
  /\ Len(optimizeLog) = Len(newResults)
  /\ Len(optimizeLog) <= Len(BatchPosts)
  /\ \A k \in DOMAIN optimizeLog :
       /\ optimizeLog[k].postId = BatchPosts[k]
       /\ newResults[k].postId = BatchPosts[k]
       /\ newResults[k] = ResultFor(FindPost(BatchPosts[k]), optimizeLog[k].reply,
                                    selectedAuthorId)
  /\ (batches > 0 /\ ~optimizing) =>
       /\ Len(optimizeLog) = Len(BatchPosts)
       /\ results = newResults

\* C5 witness: a batch of two posts is over, the optimization of the first
\* failed and the second has the result of a successful one
C5_Witness ==
  /\ batches > 0 /\ ~optimizing
  /\ Len(batch) = 2 /\ Len(results) = 2
  /\ optimizeLog[1].reply.kind = "reply" /\ ~optimizeLog[1].reply.response.success
  /\ optimizeLog[2].reply.kind = "reply" /\ optimizeLog[2].reply.response.success
  /\ results[2].postId = batch[2]
  /\ results[2].seoTitle = Str(<<"S">>)

\* ------------------------------------------------------------ C11
\* the same request has been served twice, the remote having answered the
\* calls of the second invocation as it answered those of the first
ServedTwice ==
  /\ handler = "publish" /\ pc = "done" /\ served = 2
  /\ firstRun # NoRun
  /\ req = firstRun.req
  /\ answered.log = firstRun.answers

\* C11: sending the same publish request a second time, the remote answering
\* the lookups and the image fetch as it did the first time, leaves the remote
\* post (title, content, status, author, categories, tags, featured media, SEO
\* meta) and the taxonomy terms as the first invocation left them.
C11_RetryIdempotent ==
  ServedTwice =>
    /\ remotePosts = firstRun.remotePosts
    /\ <<remoteUsers, remoteCategories, remoteTags>> = firstRun.taxonomy

\* ------------------------------------------------------------ C12
\* the request in progress has tags and the tag stage is over
TagsResolved ==
  /\ handler = "publish" /\ pc \in {"update", "done"} /\ ~MissingCredentials
  /\ Truthy(req.tags) /\ Len(req.tags.v) > 0

\* the answer of the remote to the lookup of the k-th tag name; "none" when
\* that lookup was never issued
TagAnswer(k) ==
  LET before == Len(SelectSeq(calls, LAMBDA c : c.url \in {"image", "/wp/v2/media", "/wp/v2/users", "/wp/v2/categories"}))
  IN IF k <= Len(CallsTo("GET", "/wp/v2/tags")) THEN answered.log[before + k] ELSE "none"

\* the k-th tag name matches: its lookup came back with a success status and
\* the remote holds a tag with its slug
TagMatches(k) ==
  TagAnswer(k) = "ok" /\ Slugify(req.tags.v[k]) \in DOMAIN remoteTags

\* the ids of the matching tags, in input order
MatchingTagIds ==
  LET ks == SelectSeq([k \in 1..Len(req.tags.v) |-> k], TagMatches)
  IN [j \in 1..Len(ks) |-> Num(remoteTags[Slugify(req.tags.v[ks[j]])])]

\* C12: whatever the tag names and whatever the remote does with each lookup
\* (match, no match, non-success status, transport failure), the tag ids
\* resolved are those of exactly the matching tags, in input order: a miss or
\* a failure leaves its tag out and the other ids as they are.
C12_TagIdsOfMatchingTags ==
  TagsResolved => tagIds = MatchingTagIds

\* ------------------------------------------------------------ C13
\* the answers of the remote to the calls of the request in progress to url
AnswersTo(url) ==
  LET at == SelectSeq([i \in 1..Len(calls) |-> i], LAMBDA i : calls[i].url = url)
  IN [j \in 1..Len(at) |-> answered.log[at[j]]]

\* the three resolutions of the request in progress are over
LookupsOver == handler = "publish" /\ pc \in {"update", "done"} /\ ~MissingCredentials

\* C13: the author, category and tag resolutions are independent. Whatever
\* the remote does with the lookups of one of them (miss, non-success status,
\* transport failure), the lookups of the other two are issued and each id
\* is what the answer to its own lookup makes it; and the update is issued.
C13_ResolutionsIndependent ==
  LookupsOver =>
    LET user == AnswersTo("/wp/v2/users")
        category == AnswersTo("/wp/v2/categories")
        tags == AnswersTo("/wp/v2/tags")
        authorSlug == req.detectedAuthorId.v
        categorySlug == Slugify(req.category.v)
    IN /\ Len(user) = 1
       /\ authorId = IF user[1] = "ok" /\ authorSlug \in DOMAIN remoteUsers
                     THEN Num(remoteUsers[authorSlug]) ELSE Null
       /\ Len(category) = IF Truthy(req.category) THEN 1 ELSE 0
       /\ categoryId = IF ~Truthy(req.category) THEN Undefined
                       ELSE IF category[1] = "ok" /\ categorySlug \in DOMAIN remoteCategories
                            THEN Num(remoteCategories[categorySlug]) ELSE Null
       /\ Len(req.tags.v) > 0 => Len(tags) >= 1
       /\ tagIds = IF \E k \in 1..Len(tags) : tags[k] = "throw"
                   THEN <<>> ELSE MatchingTagIds
       /\ pc = "done" => Len(CallsTo("PUT", "/wp/v2/posts")) = 1

\* the author lookup did not come back, the category lookup and the tag
\* lookup resolved their ids, and the post was updated
C13_Witness ==
  /\ PublishDone /\ response.success
  /\ AnswersTo("/wp/v2/users") = <<"throw">>
  /\ authorId = Null /\ categoryId = Num(11) /\ tagIds = <<Num(21)>>

\* ------------------------------------------------------------ C14
\* C14: a publish request that ends with no tag id resolved (no tag names
\* given, or tag names given and none resolved) sends an update without a
\* tags field, and the tags of the remote post stay as they were.
C14_NoTagsFieldWithoutTagIds ==
  (PublishDone /\ tagIds = <<>>) =>
    LET put == CallsTo("PUT", "/wp/v2/posts")
    IN /\ Len(put) = 1
       /\ "tags" \notin DOMAIN put[1].body
       /\ remotePosts[req.postId.v].tags = InitialPosts[req.postId.v].tags

\* tag names were given, none was resolved, and the post was updated
C14_Witness ==
  /\ PublishDone /\ response.success
  /\ Len(req.tags.v) > 0 /\ tagIds = <<>>
  /\ remotePosts[req.postId.v].title = req.optimizedTitle

\* ------------------------------------------------------------ C15
\* the wp-posts route has answered with the posts the remote listed
PostsListed == handler = "posts" /\ pc = "done" /\ response.success

\* the places of listed whose title occurs at no earlier place
FirstOccurrences(listed) ==
  SelectSeq([i \in 1..Len(listed) |-> i],
            LAMBDA i : \A j \in 1..(i - 1) :
                         RenderedTitle(listed[j]) # RenderedTitle(listed[i]))

\* C15: the posts the wp-posts route returns are the posts of the remote's
\* listing whose rendered title (the empty string when missing) occurs at no
\* earlier place of the listing, in the order of the listing; deduplicating
\* the returned posts again changes nothing.
C15_FirstOfEachTitleKept ==
  PostsListed =>
    LET listed == answered.log[1].posts
        firsts == FirstOccurrences(listed)
    IN /\ response.data = [k \in 1..Len(firsts) |-> listed[firsts[k]]]
       /\ uniquePosts(response.data) = response.data

\* a listing of three posts, the third with the title of the first: the
\* first and the second are returned
C15_Witness ==
  /\ PostsListed
  /\ Len(answered.log[1].posts) = 3
  /\ RenderedTitle(answered.log[1].posts[1]) = RenderedTitle(answered.log[1].posts[3])
  /\ answered.log[1].posts[1] # answered.log[1].posts[3]
  /\ response.data = SubSeq(answered.log[1].posts, 1, 2)

\* ------------------------------------------------------------ C16
\* searchPixabay has returned
Searched == handler = "search" /\ pc = "done"

\* C16: for a query of fewer than 3 characters once trimmed (the empty query
\* and queries of white space included) the image search returns none and
\* issues no network call.
C16_ShortQueryNoCall ==
  (Searched /\ Len(trim(req.query.v)) < 3) =>
    /\ calls = <<>>
    /\ response.data = Null

\* with the key configured, a query of four characters of which two are left
\* by the trimming has been searched for
C16_Witness ==
  /\ Searched /\ Truthy(PIXABAY_API_KEY)
  /\ Len(req.query.v) >= 3 /\ Len(trim(req.query.v)) = 2

\* ------------------------------------------------------------ C17
\* the query of the request with the special characters removed and the white
\* space normalized: the words of the input, one space between two of them
NormalizedQuery == trim(NormalizeSpaces(RemoveSpecial(trim(req.query.v))))

\* C17: for a query longer than 100 characters the query sent to the image
\* service has at most 100 characters and ends where a word of the input
\* ends, also when the first 100 characters contain no space.
C17_TruncatedAtWordEnd ==
  (Searched /\ Len(NormalizedQuery) > 100 /\ calls # <<>>) =>
    LET sent == calls[1].slug
    IN /\ Len(sent) <= 100
       /\ sent = SubSeq(NormalizedQuery, 1, Len(sent))
       /\ NormalizedQuery[Len(sent) + 1] \in WhiteSpace

\* ------------------------------------------------------------ C18
\* the fields of an optimization that have a default, each with the key of
\* the parsed reply it is taken from
ParsedKeyOf ==
  [category |-> <<"category">>, tags |-> <<"tags">>,
   detectedAuthor |-> <<"recommendedAuthor">>, seoScore |-> <<"seoScore">>,
   seoTitle |-> <<"seoTitle">>, seoDescription |-> <<"seoDescription">>,
   keywords |-> <<"keywords">>]

\* the optimize-content route has answered with an optimization made from a
\* reply of the generation service that parsed
ParsedOptimization == handler = "optimize" /\ pc = "done" /\ response.success

\* C18: in an optimization made from a parsed reply, each of category, tags,
\* detected author, score, SEO title, SEO description and keywords that the
\* reply does not give has the value the result without a generation key has
\* for the same request.
C18_ParsedDefaultsAsFallback ==
  ParsedOptimization =>
    LET parsed == JSONParse(cleanedContent(answered.log[1].content.v)).v
        query == trim(StripTags(req.title.v))
        excerpt == IF req.excerpt.t = "string" THEN req.excerpt ELSE Str(<<>>)
        fallback == FallbackResult(query, req.content, excerpt, Null)
    IN \A f \in DOMAIN ParsedKeyOf :
         Field(parsed, ParsedKeyOf[f]) = Undefined => response.data[f] = fallback[f]

\* ------------------------------------------------------------ C19
\* the lookups of the category and of the tags of the request in progress
\* have been issued: each name with the slug its lookup was made with
SlugLookups ==
  IF handler = "publish" /\ pc \in {"update", "done"} /\ ~MissingCredentials
  THEN {<<req.category.v, CallsTo("GET", "/wp/v2/categories")[1].slug>>}
         \cup {<<req.tags.v[k], CallsTo("GET", "/wp/v2/tags")[k].slug>> :
                  k \in 1..Len(CallsTo("GET", "/wp/v2/tags"))}
  ELSE {}

\* a lower-case letter, a digit or a hyphen stays, anything else becomes '-'
SlugChar(c) == IF c \in Range(LowerLetters) \cup Digits \cup {"-"} THEN c ELSE "-"

\* the name AI & Robotics and its slug
AIAndRobotics == <<"A","I"," ","&"," ","R","o","b","o","t","i","c","s">>
AIAndRoboticsSlug == <<"a","i","-","-","-","r","o","b","o","t","i","c","s">>

\* C19 as stated: the slug a category or tag lookup is made with has the
\* length of the name, each character of the name lower-cased and, if then
\* outside [a-z0-9-], replaced by '-'; the slug of 'AI & Robotics' is
\* 'ai---robotics'.
C19_SlugSameLengthAsName ==
  \A l \in SlugLookups :
    /\ Len(l[2]) = Len(l[1])
    /\ \A i \in 1..Len(l[1]) : l[2][i] = SlugChar(LowerChar(l[1][i]))
    /\ l[1] = AIAndRobotics => l[2] = AIAndRoboticsSlug

\* C19, amended: the slug a category or tag lookup is made with is the
\* lower-cased name with each character outside [a-z0-9-] replaced by '-',
\* one for one; it has the length of the lower-cased name, which is the
\* length of the name unless the name holds a dotted capital I (U+0130),
\* whose lower case is two characters; the slug of 'AI & Robotics' is
\* 'ai---robotics'.
C19_SlugOfLowerCasedName ==
  \A l \in SlugLookups :
    LET low == toLowerCase(l[1])
    IN /\ Len(l[2]) = Len(low)
       /\ \A i \in 1..Len(low) : l[2][i] = SlugChar(low[i])
       /\ (\A i \in 1..Len(l[1]) : l[1][i] # DottedCapitalI) =>
             /\ Len(l[2]) = Len(l[1])
             /\ \A i \in 1..Len(l[1]) : l[2][i] = SlugChar(LowerChar(l[1][i]))
       /\ l[1] = AIAndRobotics => l[2] = AIAndRoboticsSlug

\* the category 'AI & Robotics' has been looked up with the slug
\* 'ai---robotics', and a tag with a dotted capital I with a slug one
\* character longer than its name
C19_Witness ==
  /\ <<AIAndRobotics, AIAndRoboticsSlug>> \in SlugLookups
  /\ \E l \in SlugLookups : Len(l[2]) = Len(l[1]) + 1

\* ------------------------------------------------------------ C20
\* the publish request has been answered with the success response
Published == PublishDone /\ response.success

\* the media upload of the request in progress came back with a success status
Uploaded == AnswersTo("/wp/v2/media") = <<"ok">>

\* C20: the data of a success response report the author id, the category id
\* and the tag ids as resolved (null for an author or a category without a
\* match, no id for a tag without one), and as image URL the URL of the
\* uploaded media when the upload succeeded, the suggested image otherwise;
\* the ids reported are the ids the update request carried.
C20_OutcomeReportsWhatWasSent ==
  Published =>
    LET data == response.data
        body == CallsTo("PUT", "/wp/v2/posts")[1].body
        user == AnswersTo("/wp/v2/users")
        category == AnswersTo("/wp/v2/categories")
        authorSlug == req.detectedAuthorId.v
        categorySlug == Slugify(req.category.v)
    IN /\ data.author_id = IF user[1] = "ok" /\ authorSlug \in DOMAIN remoteUsers
                           THEN Num(remoteUsers[authorSlug]) ELSE Null
       /\ IF data.author_id = Null THEN "author" \notin DOMAIN body
          ELSE body.author = data.author_id
       /\ IF ~Truthy(req.category)
          THEN "category_id" \notin DOMAIN data /\ "categories" \notin DOMAIN body
          ELSE /\ data.category_id =
                    IF category[1] = "ok" /\ categorySlug \in DOMAIN remoteCategories
                    THEN Num(remoteCategories[categorySlug]) ELSE Null
               /\ IF data.category_id = Null THEN "categories" \notin DOMAIN body
                  ELSE body.categories = Arr(<<data.category_id>>)
       /\ data.tag_ids = Arr(IF \E k \in 1..Len(AnswersTo("/wp/v2/tags")) :
                                  AnswersTo("/wp/v2/tags")[k] = "throw"
                             THEN <<>> ELSE MatchingTagIds)
       /\ IF data.tag_ids.v = <<>> THEN "tags" \notin DOMAIN body
          ELSE body.tags = data.tag_ids
       /\ data.imageUrl = IF Uploaded THEN Str(<<"w">>) ELSE req.suggestedImage

\* a success response after an upload that succeeded, an author lookup
\* without a match, and a category and a tag that were resolved
C20_Witness ==
  /\ Published /\ Uploaded
  /\ response.data.imageUrl # req.suggestedImage
  /\ AnswersTo("/wp/v2/users") = <<"ok">> /\ response.data.author_id = Null
  /\ Truthy(req.category) /\ response.data.category_id = Num(11)
  /\ response.data.tag_ids = Arr(<<Num(21)>>)

\* ------------------------------------------------------------ C21
\* the image step of the request in progress is over, the request having
\* suggested an image that is not blank
ImageStepOver ==
  /\ handler = "publish" /\ pc \in {"author", "category", "tags", "update", "done"}
  /\ ~MissingCredentials
  /\ Truthy(req.suggestedImage) /\ Truthy(Str(trim(req.suggestedImage.v)))

\* C21: the media upload gives the id and the URL of the new media item
\* exactly when the fetch of the image and the upload both came back with a
\* success status; otherwise it gives nothing, the request goes on, and the
\* upload is issued only after a fetch that succeeded.
C21_UploadOnlyAfterFetch ==
  ImageStepOver =>
    LET fetches == AnswersTo("image")
        uploads == AnswersTo("/wp/v2/media")
    IN /\ Len(fetches) = 1 /\ calls[1].url = "image"
       /\ Len(uploads) = IF fetches[1] = "ok" THEN 1 ELSE 0
       /\ Len(uploads) = 1 => calls[2].url = "/wp/v2/media"
       /\ IF fetches[1] = "ok" /\ uploads = <<"ok">>
          THEN /\ featuredMediaId = Num(100) /\ remoteMedia = {100}
               /\ uploadedImageUrl = Str(<<"w">>)
          ELSE /\ featuredMediaId = Undefined /\ uploadedImageUrl = Undefined
               /\ remoteMedia = {}
       /\ pc # "author" => Len(CallsTo("GET", "/wp/v2/users")) = 1

\* the fetch succeeded, the upload came back with a non-success status, and
\* the request went on to update the post
C21_Witness ==
  /\ ImageStepOver /\ Published
  /\ AnswersTo("image") = <<"ok">> /\ AnswersTo("/wp/v2/media") = <<"status">>
  /\ featuredMediaId = Undefined

\* ---- the console's publish statuses
\* the replies the log holds for the publish requests of a post
RepliesFor(postId) ==
  {publishLog[k].reply[1] : k \in {m \in DOMAIN publishLog :
                                    publishLog[m].postId = postId /\ publishLog[m].reply # <<>>}}

Failed(status) == status.error.t = "string" /\ Len(status.error.v) > 0

\* C22: in the console no post is shown both published and failed; a post is
\* shown published only if its own publish request came back with success
\* true; and once its request has completed the post is no longer marked
\* publishing and is either published or failed with a non-empty error.
C22_OutcomeUnambiguous ==
  \A postId \in DOMAIN publishStatus :
    LET status == publishStatus[postId]
    IN /\ ~(status.published /\ Truthy(status.error))
       /\ status.published => \E reply \in RepliesFor(postId) : reply.kind = "ok"
       /\ (RepliesFor(postId) # {} /\ InFlight(postId) = {}) =>
            /\ ~status.publishing
            /\ status.published # Failed(status)

C22_Witness ==
  /\ 1 \in DOMAIN publishStatus /\ 2 \in DOMAIN publishStatus
  /\ publishStatus[1].published /\ RepliesFor(1) = {[kind |-> "ok", error |-> Undefined]}
  /\ RepliesFor(2) = {[kind |-> "fail", error |-> Str(<<>>)]}
  /\ publishStatus[2].error = Str(<<"Failed to publish">>)

\* ---- fenced replies of the generation service
\* the reply is a payload between an opening fence with json and a closing
\* fence, each on a line of its own
IsFenced(text) ==
  /\ Len(text) >= 5
  /\ SubSeq(text, 1, 3) = <<Fence, "json", "\n">>
  /\ SubSeq(text, Len(text) - 1, Len(text)) = <<"\n", Fence>>

\* the reply without its fence
Payload(text) == SubSeq(text, 4, Len(text) - 2)

\* the optimize-content route has answered a request with a title and an
\* excerpt, the generation service having replied with a fenced text
FencedReplyServed ==
  /\ handler = "optimize" /\ pc = "done"
  /\ req.title.t = "string" /\ req.excerpt.t = "string"
  /\ answered.observed /\ answered.log # <<>>
  /\ answered.log[1].kind = "ok" /\ answered.log[1].content.t = "string"
  /\ IsFenced(answered.log[1].content.v)

StepOf(call) ==
  CASE call.url = "image" -> 1
    [] call.url = "/wp/v2/media" -> 2
    [] call.url = "/wp/v2/users" -> 3
    [] call.url = "/wp/v2/categories" -> 4
    [] call.url = "/wp/v2/tags" -> 5
    [] call.url = "/wp/v2/posts" -> 6
    [] OTHER -> 0

\* the lookups a request asks for have been issued
AllLookupsIssued ==
  /\ Len(CallsTo("GET", "/wp/v2/users")) = 1
  /\ Truthy(req.category) => Len(CallsTo("GET", "/wp/v2/categories")) = 1
  /\ (Truthy(req.tags) /\ Len(req.tags.v) > 0) => Len(CallsTo("GET", "/wp/v2/tags")) >= 1

\* the suggested image of the request is absent, empty or of white space
BlankImage ==
  \/ req.suggestedImage = Undefined
  \/ /\ req.suggestedImage.t = "string"
     /\ \A k \in DOMAIN req.suggestedImage.v : req.suggestedImage.v[k] \in WhiteSpace

\* C24: the remote calls of a publish request are issued one after the other
\* in the order fetch of the image, upload, author lookup, category lookup,
\* tag lookups, update, each after the one before it was answered; the update
\* is issued only after the lookups and is the last call; and a request whose
\* suggested image is absent, empty or of white space issues neither the
\* fetch nor the upload.
C24_StrictlySequential ==
  (handler = "publish" /\ ~MissingCredentials) =>
    /\ Len(answered.log) = Len(calls)
    /\ \A i \in DOMAIN calls : StepOf(calls[i]) \in 1..6
    /\ \A i, j \in DOMAIN calls :
         i < j => /\ StepOf(calls[i]) <= StepOf(calls[j])
                  /\ StepOf(calls[i]) = StepOf(calls[j]) => StepOf(calls[i]) = 5
    /\ \A i \in DOMAIN calls :
         StepOf(calls[i]) = 2 => (i = 2 /\ StepOf(calls[1]) = 1 /\ answered.log[1] = "ok")
    /\ (\E i \in DOMAIN calls : StepOf(calls[i]) = 6) =>
         (AllLookupsIssued /\ StepOf(calls[Len(calls)]) = 6 /\ pc = "done")
    /\ pc = "done" => (calls # <<>> /\ StepOf(calls[Len(calls)]) = 6)
    /\ BlankImage => \A i \in DOMAIN calls : StepOf(calls[i]) \notin {1, 2}

C24_Witness ==
  /\ handler = "publish" /\ pc = "done" /\ ~MissingCredentials
  /\ req.suggestedImage = Str(<<" ">>)
  /\ Len(req.tags.v) = 2
  /\ [i \in DOMAIN calls |-> StepOf(calls[i])] = <<3, 4, 5, 5, 6>>

\* ---- publish requests end
\* the requests of the log that have their reply
Answered == {k \in DOMAIN publishLog : publishLog[k].reply # <<>>}

\* the route has responded once to each request it took up and finished, and
\* to no other
OneResponseEach ==
  served = Cardinality(Answered)
             + Cardinality({k \in DOMAIN publishLog : Serving(k) /\ pc = "done"})

Publishing(postId) == postId \in DOMAIN publishStatus /\ publishStatus[postId].publishing

\* C25: every call coming back or failing, each publish request of the
\* console gets exactly one response of the route, with success true or
\* false, and the publishing mark of its post is cleared in the end.
C25_PublishEnds ==
  /\ [](OneResponseEach /\ (pc = "done" => response.success \in BOOLEAN))
  /\ \A postId \in {1, 2} :
       Publishing(postId) ~> (~Publishing(postId) /\ RepliesFor(postId) # {})

C25_Witness ==
  /\ served = 2
  /\ ~Publishing(1) /\ ~Publishing(2)
  /\ RepliesFor(1) = {[kind |-> "ok", error |-> Undefined]}
  /\ RepliesFor(2) = {[kind |-> "fail", error |-> Str(<<"Failed to publish post">>)]}

\* ---- publish requests of several posts in flight together
\* the entry of a post is what its own request made it: publishing while the
\* request is in flight, then published exactly if that request came back
\* with success true, failed otherwise
OwnOutcome(postId) ==
  LET status == publishStatus[postId]
  IN IF InFlight(postId) # {}
     THEN status.publishing /\ ~status.published /\ status.error = Null
     ELSE /\ ~status.publishing
          /\ status.published = (\E reply \in RepliesFor(postId) : reply.kind = "ok")
          /\ Failed(status) = (\E reply \in RepliesFor(postId) : reply.kind # "ok")

\* a step in which the request of the post is answered
Completes(postId) == RepliesFor(postId)' # RepliesFor(postId)

\* C26: with publish requests of different posts in flight together and
\* answered in any order, the answer to one changes the status entry of its
\* post only, no entry of another post is lost or written over, and each
\* post ends with the outcome of its own request.
C26_OwnRequestOnly ==
  [][\A postId \in DOMAIN publishStatus' :
       /\ OwnOutcome(postId)'
       /\ \A other \in DOMAIN publishStatus \ {postId} :
            /\ other \in DOMAIN publishStatus'
            /\ Completes(postId) => publishStatus'[other] = publishStatus[other]]_vars

C26_Witness ==
  /\ Len(publishLog) = 2
  /\ publishLog[1].postId = 1 /\ publishLog[1].reply = <<>>
  /\ publishLog[2].postId = 2 /\ publishLog[2].reply = <<[kind |-> "ok", error |-> Undefined]>>
  /\ publishStatus[1].publishing /\ publishStatus[2].published

\* ---- the writes of a save of SEO data
\* the save-SEO route has answered a request with a post id
SeoServed == handler = "seo" /\ pc = "done" /\ ~MissingCredentials /\ Truthy(req.postId)

\* the positions in calls of the writes of meta fields: the combined write
\* first, the per-field writes after it
MetaWrites == SelectSeq([i \in 1..Len(calls) |-> i], LAMBDA i : "meta" \in DOMAIN calls[i].body)

\* the per-field writes are one for each field given, in order
OneWritePerField ==
  /\ Len(MetaWrites) = 1 + Len(metaFields(req))
  /\ \A k \in DOMAIN metaFields(req) :
       calls[MetaWrites[k + 1]].body = MetaBody(<<metaFields(req)[k]>>)

\* C27: the save of SEO data writes all the meta fields given in one combined
\* write first; per-field writes follow only if the combined write came back
\* with a non-success status, and then there is exactly one for each field
\* given; and whatever the per-field writes come back with, each of them is
\* issued and the save is answered with success.
C27_TwoTierWrite ==
  (SeoServed /\ MetaWrites # <<>>) =>
    LET combined == MetaWrites[1]
    IN /\ calls[combined].body = MetaBody(metaFields(req))
       /\ IF answered.log[combined] \in {"status", "page"}
          THEN OneWritePerField /\ response.success
          ELSE Len(MetaWrites) = 1

\* the same, for a combined write whose non-success response has a JSON body
C27_TwoTierWriteJsonBody ==
  (SeoServed /\ MetaWrites # <<>> /\ answered.log[MetaWrites[1]] # "page") =>
    C27_TwoTierWrite

\* ---- the author selected in the console
\* the second of two requests that differ in selectedAuthorId only has been
\* answered
OtherSelectedDone ==
  /\ handler = "publish" /\ pc = "done" /\ firstRun # NoRun /\ served = 2
  /\ req.selectedAuthorId # firstRun.req.selectedAuthorId

\* the author of the update, Undefined when the update has none
WrittenAuthor ==
  IF CallsTo("PUT", "/wp/v2/posts") = <<>> THEN Undefined
  ELSE Field(Obj(CallsTo("PUT", "/wp/v2/posts")[1].body), "author")

\* C28: the author selected in the console has no influence on what is
\* written: two publish requests that differ in selectedAuthorId only issue
\* the same remote calls with the same update and are answered alike, and the
\* author written is the one found for the detected author slug, or none.
C28_SelectedAuthorIgnored ==
  /\ OtherSelectedDone =>
       /\ calls = firstRun.calls
       /\ response = firstRun.response
       /\ remotePosts = firstRun.remotePosts
  /\ (handler = "publish" /\ pc = "done" /\ ~MissingCredentials) =>
       WrittenAuthor = IF req.detectedAuthorId.v \in DOMAIN remoteUsers
                          /\ AnswersTo("/wp/v2/users") = <<"ok">>
                       THEN Num(remoteUsers[req.detectedAuthorId.v])
                       ELSE Undefined

C28_Witness ==
  /\ OtherSelectedDone /\ Published
  /\ req.selectedAuthorId = Num(7)
  /\ AnswersTo("/wp/v2/users") = <<"status">>
  /\ WrittenAuthor = Undefined

\* ---- publishing a post once
\* the publish requests the console has sent for a post
RequestsFor(postId) == {k \in DOMAIN publishLog : publishLog[k].postId = postId}

\* C29: in a page session a publish is started at most once for each post:
\* the publish and save-as-draft buttons are offered only while the post has
\* no publish status; a post that has a status keeps one whatever is done
\* next, running the batch optimization again included, which replaces the
\* results and keeps the statuses; and a post shown published stays so.
C29_PublishOnce ==
  [][\A postId \in PostIds' :
       /\ Cardinality(RequestsFor(postId)') <= 1
       /\ PublishOffered(postId)' => StatusOf(postId)' = Undefined
       /\ StatusOf(postId) # Undefined =>
            /\ StatusOf(postId)' # Undefined
            /\ batches' # batches => StatusOf(postId)' = StatusOf(postId)
            /\ StatusOf(postId).published => StatusOf(postId)'.published]_vars

C29_Witness ==
  /\ batches = 2 /\ ~optimizing
  /\ Len(publishLog) = 1 /\ publishLog[1].postId = 1
  /\ publishLog[1].optimization.reply.kind = "throw"
  /\ FindResult(1) # Undefined /\ FindResult(1).seoScore = Num(85)
  /\ Includes(expandedPosts, 1)
  /\ publishStatus[1].published
  /\ ~PublishOffered(1)

\* ---- the query sent to the image service
\* C30: whenever the image search issues its call, the query it sends, the
\* normalized one, is not empty and has at least 3 characters, whatever the
\* query it was given.
C30_SentQueryAtLeastThree ==
  (Searched /\ calls # <<>>) => Len(calls[1].slug) >= 3

\* the same for queries without special characters and of at most 100
\* characters once normalized
C30_PlainShortQueries ==
  (Searched /\ calls # <<>> /\ RemoveSpecial(trim(req.query.v)) = trim(req.query.v)
     /\ Len(NormalizedQuery) <= 100) =>
    Len(calls[1].slug) >= 3

====
